---- MODULE Spec2Model ----
(***************************************************************************)
(* Model of the pita HTML -> Slack texty converter (ktym4a/pita).          *)
(*                                                                         *)
(* The parsed document is a pre-order sequence of nodes below <body>       *)
(* (node 0).  Characters are one-character strings; every visible letter   *)
(* of every text node is distinct, so a letter of the output identifies    *)
(* the text node it came from.                                             *)
(***************************************************************************)
EXTENDS Integers, Sequences, FiniteSets, TLC

VARIABLES
  doc,      \* the parsed document, in document order
  adapter,  \* the site adapter passed to the converter
  cur,      \* walker.currentNode
  ops,      \* the operations produced so far
  log,      \* history: the element, handler and result of every dispatch
  pc,       \* "parse", "walk" or "done"
  limit,    \* the size of the documents explored
  hnd,      \* the keydown handler of the content script
  second,   \* a second conversion of the same input
  store,    \* the settings held in extension storage
  toggles,  \* the toggle calls made by the popup
  script,   \* the content script: its enabled flag and settings watcher
  note,     \* the notification toast and its timers
  page,     \* the page's keydown listeners and the adapter that owns them
  icon      \* the background script's icon updates for one tab

vars == <<doc, adapter, cur, ops, log, pc, limit, hnd, second,
          store, toggles, script, note, page, icon>>

\* The converter and the keydown handler
converterVars == <<doc, adapter, cur, ops, log, pc, limit, hnd, second>>

(***************************************************************************)
(* Bounds of the explored inputs.                                          *)
(***************************************************************************)
\* nodes below <body> in a document over the whole tag alphabet
MaxNodes == 3
\* nodes below <body> in a document made of ul / li / text only
MaxListNodes == 6
\* nodes below <body> in a document explored under fairness
MaxFairNodes == 2
\* nodes below <body> in a document made of one block holding inline content
MaxFormatNodes == 4
\* nodes below <body> in a document made of one code block
MaxCodeNodes == 4
\* nodes below <body> in a document read from the clipboard by the handler
MaxHandlerNodes == 2
\* nodes below <body> in a document copied while the settings change
MaxScriptNodes == 1
\* toggle calls the popup makes
MaxToggles == 2
\* toggle calls the popup makes while the content script copies
MaxScriptToggles == 1
\* calls of showNotification
MaxShows == 3
\* milliseconds the clock advances in one step, and the last instant explored
TimeStep == 100
MaxTime == 8000
\* calls of setupEventListeners, each with a handler of its own or a repeated one
MaxSetups == 2
\* iframes of the page
MaxIframes == 2
\* updateIcon calls of the background script, toggle calls made meanwhile,
\* and navigations of the tab
MaxIconUpdates == 3
MaxIconToggles == 1
MaxUrlChanges == 1

(***************************************************************************)
(* Characters and strings.                                                 *)
(***************************************************************************)
SP == " "
NL == "\n"

Letters == <<"a", "b", "c", "d", "e", "f", "g", "h", "i", "j", "k", "l", "m",
             "n", "o", "p", "q", "r", "s", "t", "u", "v", "w", "y", "z", "A",
             "B", "C", "D", "E", "F", "G", "H", "I", "J", "K", "L", "M">>

\* the k-th visible letter of the text node at index i
Letter(i, k) == Letters[2 * (i - 1) + k]

\* String.prototype.trim() === "" on one character
IsWhitespace(c) == c \in {SP, NL}

RECURSIVE TrimStart(_)
TrimStart(s) ==
  IF s # <<>> /\ IsWhitespace(Head(s)) THEN TrimStart(Tail(s)) ELSE s

RECURSIVE TrimEnd(_)
TrimEnd(s) ==
  IF s # <<>> /\ IsWhitespace(s[Len(s)])
  THEN TrimEnd(SubSeq(s, 1, Len(s) - 1))
  ELSE s

\* String.prototype.trim()
Trim(s) == TrimEnd(TrimStart(s))

RECURSIVE Concat(_)
Concat(ss) == IF ss = <<>> THEN <<>> ELSE Head(ss) \o Concat(Tail(ss))

\* String.prototype.split("\n")
RECURSIVE SplitLines(_)
SplitLines(s) ==
  IF \E i \in 1..Len(s) : s[i] = NL
  THEN LET i == CHOOSE j \in 1..Len(s) :
                  s[j] = NL /\ \A k \in 1..(j - 1) : s[k] # NL
       IN  <<SubSeq(s, 1, i - 1)>> \o SplitLines(SubSeq(s, i + 1, Len(s)))
  ELSE <<s>>

(***************************************************************************)
(* The parsed document: doc[i] = [tag, parent, text, attrs].               *)
(***************************************************************************)
TEXT == "#text"
BODY == 0

Elements(d) == {i \in 1..Len(d) : d[i].tag # TEXT}

RECURSIVE Ancestors(_, _)
\* proper ancestors of node i below <body>
Ancestors(d, i) ==
  IF i = BODY \/ d[i].parent = BODY THEN {}
  ELSE {d[i].parent} \cup Ancestors(d, d[i].parent)

\* Node.contains(other): other is node or a descendant of node
Contains(d, node, other) == other = node \/ node \in Ancestors(d, other)

\* Element.closest(tag): the element itself or an ancestor has the tag
Closest(d, i, tag) ==
  \E j \in {i} \cup Ancestors(d, i) : d[j].tag = tag

Children(d, i) == {j \in 1..Len(d) : d[j].parent = i}

\* Sequence of the members of a set of node indexes, in document order
RECURSIVE InOrder(_)
InOrder(S) ==
  IF S = {} THEN <<>>
  ELSE LET m == CHOOSE x \in S : \A y \in S : x <= y
       IN  <<m>> \o InOrder(S \ {m})

\* Node.childNodes
ChildNodes(d, i) == InOrder(Children(d, i))

\* Node.textContent: the text of all descendant text nodes, in document order
TextContent(d, i) ==
  Concat([k \in 1..Len(InOrder({j \in 1..Len(d) :
                                   d[j].tag = TEXT /\ Contains(d, i, j)})) |->
            d[InOrder({j \in 1..Len(d) :
                         d[j].tag = TEXT /\ Contains(d, i, j)})[k]].text])

\* Element.querySelector(tag): first descendant element with the tag, or 0
QuerySelector(d, i, tags) ==
  LET S == {j \in Elements(d) : j # i /\ Contains(d, i, j) /\ d[j].tag \in tags}
  IN  IF S = {} THEN 0 ELSE CHOOSE x \in S : \A y \in S : x <= y

HasAttribute(d, i, name) == name \in DOMAIN d[i].attrs

(***************************************************************************)
(* DOMParser.parseFromString: the documents the HTML parser can build.     *)
(***************************************************************************)
BlockTags == {"ul", "ol", "li", "p", "h1", "div", "blockquote", "pre"}
InlineTags == {"b", "code"}

\* aria-level attribute values of a list item (absent, or one of these)
AriaValues == {<<"0">>, <<"-", "1">>, <<"x">>, <<"2">>}

NoAttrs == <<>>

TextShapes(i) ==
  { <<Letter(i, 1)>>,
    <<SP>>,
    <<SP, Letter(i, 1), NL, Letter(i, 2)>> }

\* Open elements when node Len(d)+1 is inserted: <body> and the last node's
\* element ancestors-or-self
OpenElements(d) ==
  IF d = <<>> THEN {BODY}
  ELSE {BODY} \cup {j \in {Len(d)} \cup Ancestors(d, Len(d)) : d[j].tag # TEXT}

\* The tree builder closes an open <p> at a block start tag, an open <li>
\* at <li> unless a special element other than div/p lies between, and an
\* open heading at a heading start tag.
RECURSIVE ClosesListItem(_, _)
ClosesListItem(d, j) ==
  IF j = BODY THEN FALSE
  ELSE IF d[j].tag = "li" THEN TRUE
  ELSE IF d[j].tag \in {"ul", "ol", "blockquote", "pre", "h1"} THEN FALSE
  ELSE ClosesListItem(d, d[j].parent)

ParserAllows(d, parent, tag) ==
  /\ tag \in BlockTags => (parent = BODY \/ ~Closest(d, parent, "p"))
  /\ tag = "a" => (parent = BODY \/ ~Closest(d, parent, "a"))
  /\ tag = "li" => ~ClosesListItem(d, parent)
  /\ tag = "h1" => (parent = BODY \/ d[parent].tag # "h1")

\* The inline list-style-type of a list item: a bullet style, three
\* numbering keywords and a custom counter style name
ListStyleTypes == {"disc", "decimal", "lower-alpha", "upper-roman", "numbered"}

NodesFor(d, tags) ==
  LET i == Len(d) + 1 IN
  { nd \in
      UNION { { [tag |-> t, parent |-> p, text |-> <<>>, attrs |-> NoAttrs]
                  : t \in tags \ {TEXT} }
              \cup (IF "li" \in tags
                    THEN { [tag |-> "li", parent |-> p, text |-> <<>>,
                            attrs |-> ("aria-level" :> a)] : a \in AriaValues }
                    ELSE {})
              \cup (IF "li" \in tags /\ p # BODY /\ d[p].tag \in {"ul", "ol"}
                    THEN { [tag |-> "li", parent |-> p, text |-> <<>>,
                            attrs |-> ("list-style-type" :> v)]
                             : v \in ListStyleTypes }
                    ELSE {})
              \cup (IF TEXT \in tags
                    THEN { [tag |-> TEXT, parent |-> p, text |-> tx,
                            attrs |-> NoAttrs] : tx \in TextShapes(i) }
                    ELSE {})
              : p \in OpenElements(d) }
      : ParserAllows(d, nd.parent, nd.tag) }

\* Well-formed nested lists: ul holds li, li holds text and ul
IsListDoc(d) ==
  \A i \in 1..Len(d) :
    /\ d[i].tag \in {"ul", "li", TEXT}
    /\ d[i].tag = "ul" => (d[i].parent = BODY \/ d[d[i].parent].tag = "li")
    /\ d[i].tag = "li" => (d[i].parent # BODY /\ d[d[i].parent].tag = "ul"
                           /\ d[i].attrs = NoAttrs)
    /\ d[i].tag = TEXT => (d[i].parent # BODY /\ d[d[i].parent].tag = "li"
                           /\ d[i].text = <<Letter(i, 1)>>)

\* Inline content: the block elements that hold it, and the attributes of
\* the inline elements
FormatBlocks == {"blockquote", "p", "li"}

Hrefs == {"https://example.com", "https://www.google.com/url?q=https://example.org"}

InlineAttrs(tag) ==
  CASE tag = "b"    -> {NoAttrs, "style" :> {"font-weight: normal"},
                        "id" :> "docs-internal-guid"}
    [] tag = "span" -> {"style" :> {"font-weight: bold"},
                        "style" :> {"font-style: italic"}}
    [] tag = "a"    -> {"href" :> h : h \in Hrefs}

FormatNodes(d) ==
  LET i == Len(d) + 1 IN
  IF d = <<>>
  THEN { [tag |-> t, parent |-> BODY, text |-> <<>>, attrs |-> NoAttrs]
           : t \in FormatBlocks }
  ELSE { nd \in
           UNION { UNION { { [tag |-> t, parent |-> p, text |-> <<>>, attrs |-> at]
                               : at \in InlineAttrs(t) } : t \in {"b", "span", "a"} }
                   \cup { [tag |-> TEXT, parent |-> p, text |-> tx,
                           attrs |-> NoAttrs] : tx \in TextShapes(i) }
                   : p \in OpenElements(d) \ {BODY} }
           : ParserAllows(d, nd.parent, nd.tag) }

\* One block element holding inline elements and text
IsFormatDoc(d) ==
  /\ d # <<>> => (d[1].tag \in FormatBlocks /\ d[1].attrs = NoAttrs)
  /\ \A i \in 2..Len(d) : d[i].tag \in {"b", "span", "a", TEXT}

\* Code blocks: a pre holding text and code elements, with blank lines and
\* trailing whitespace in the text
CodeTextShapes(i) ==
  { <<Letter(i, 1), NL, NL, Letter(i, 2), NL>>,
    <<NL, Letter(i, 1), SP, Letter(i, 2), NL, SP, NL>>,
    <<NL, SP>> }

CodeNodes(d) ==
  LET i == Len(d) + 1 IN
  IF d = <<>>
  THEN { [tag |-> "pre", parent |-> BODY, text |-> <<>>, attrs |-> NoAttrs] }
  ELSE UNION { { [tag |-> "code", parent |-> p, text |-> <<>>, attrs |-> NoAttrs] }
               \cup { [tag |-> TEXT, parent |-> p, text |-> tx, attrs |-> NoAttrs]
                        : tx \in CodeTextShapes(i) }
               : p \in {x \in OpenElements(d) \ {BODY} :
                          d[Len(d)].tag = TEXT => x # d[Len(d)].parent} }

IsCodeDoc(d) ==
  /\ d # <<>> => d[1].tag = "pre"
  /\ \A i \in 2..Len(d) : d[i].tag \in {"code", TEXT}

Adapters == {"notion", "google-docs"}

(***************************************************************************)
(* Slack texty operations.                                                 *)
(***************************************************************************)
\* { ...a, ...b }: later values override earlier ones
Spread(a, b) == b @@ a

createTextOpAlwaysAttributes(text, attrs) ==
  [insert |-> text, attributes |-> attrs]

createTextOp(text, attrs) ==
  IF DOMAIN attrs # {}
  THEN [insert |-> text, attributes |-> attrs]
  ELSE [insert |-> text]

HasAttributes(op) == "attributes" \in DOMAIN op

\* op.attributes?.[key] is set
HasAttr(op, key) == HasAttributes(op) /\ key \in DOMAIN op.attributes

\* STYLE_PATTERNS over a style attribute given as its set of declarations
StyleDeclarations(d, i) ==
  IF HasAttribute(d, i, "style") THEN d[i].attrs["style"] ELSE {}

STYLE_PATTERNS ==
  [ bold          |-> {"font-weight: bold", "font-weight: 700",
                       "font-weight: 800", "font-weight: 900"},
    boldNormal    |-> {"font-weight: normal", "font-weight: 400"},
    italic        |-> {"font-style: italic"},
    underline     |-> {"text-decoration: underline", "border-bottom: 1px solid"},
    strikethrough |-> {"text-decoration: line-through"} ]

StyleTest(pattern, style) == style \cap STYLE_PATTERNS[pattern] # {}

extractStyleAttributes(style) ==
  Spread(Spread(Spread(
    IF StyleTest("bold", style) THEN ("bold" :> TRUE) ELSE NoAttrs,
    IF StyleTest("italic", style) THEN ("italic" :> TRUE) ELSE NoAttrs),
    IF StyleTest("underline", style) THEN ("underline" :> TRUE) ELSE NoAttrs),
    IF StyleTest("strikethrough", style) THEN ("strike" :> TRUE) ELSE NoAttrs)

\* adapter.isWrapperElement(element, style)
isWrapperElement(a, d, i, style) ==
  IF a = "google-docs"
  THEN \/ (HasAttribute(d, i, "id") /\ d[i].attrs["id"] = "docs-internal-guid")
       \/ StyleTest("boldNormal", style)
  ELSE FALSE

\* new URL(href).searchParams.get("q"), for the URLs of Hrefs
SearchParamQ(href) ==
  IF href = "https://www.google.com/url?q=https://example.org"
  THEN "https://example.org" ELSE href

\* adapter.extractUrl(href)
extractUrl(a, href) ==
  IF a = "google-docs" /\ href = "https://www.google.com/url?q=https://example.org"
  THEN SearchParamQ(href) ELSE href

getTagAttributesNoCancel(a, d, i, style) ==
  LET tagName == d[i].tag IN
  Spread(Spread(Spread(Spread(Spread(
    IF /\ tagName \in {"b", "strong"}
       /\ ~isWrapperElement(a, d, i, style)
    THEN ("bold" :> TRUE) ELSE NoAttrs,
    IF tagName \in {"i", "em"} THEN ("italic" :> TRUE) ELSE NoAttrs),
    IF tagName = "u" THEN ("underline" :> TRUE) ELSE NoAttrs),
    IF tagName \in {"s", "strike", "del"} THEN ("strike" :> TRUE) ELSE NoAttrs),
    IF tagName = "code" THEN ("code" :> TRUE) ELSE NoAttrs),
    IF tagName = "a" /\ HasAttribute(d, i, "href")
    THEN ("link" :> extractUrl(a, d[i].attrs["href"])) ELSE NoAttrs)

getTagAttributes(a, d, i, style) ==
  LET tagName == d[i].tag IN
  Spread(Spread(Spread(Spread(Spread(
    IF /\ tagName \in {"b", "strong"}
       /\ ~isWrapperElement(a, d, i, style)
       /\ ~StyleTest("boldNormal", style)
    THEN ("bold" :> TRUE) ELSE NoAttrs,
    IF tagName \in {"i", "em"} THEN ("italic" :> TRUE) ELSE NoAttrs),
    IF tagName = "u" THEN ("underline" :> TRUE) ELSE NoAttrs),
    IF tagName \in {"s", "strike", "del"} THEN ("strike" :> TRUE) ELSE NoAttrs),
    IF tagName = "code" THEN ("code" :> TRUE) ELSE NoAttrs),
    IF tagName = "a" /\ HasAttribute(d, i, "href")
    THEN ("link" :> extractUrl(a, d[i].attrs["href"])) ELSE NoAttrs)

RECURSIVE getFormattedOps(_, _, _, _, _)
RECURSIVE FormatChildNodes(_, _, _, _, _)

FormatChildNodeDropsInherited(d, a, child, inheritedAttrs, preserveNewlines) ==
  IF d[child].tag = TEXT
  THEN LET text == d[child].text IN
       IF preserveNewlines /\ text # <<>>
       THEN <<createTextOp(text, inheritedAttrs)>>
       ELSE IF text # <<>> /\ Trim(text) # <<>>
       THEN <<createTextOp(Trim(text), inheritedAttrs)>>
       ELSE <<>>
  ELSE IF d[child].tag \in {"ul", "ol"}
  THEN <<>>
  ELSE LET style == StyleDeclarations(d, child)
           attrs == Spread(getTagAttributes(a, d, child, style),
                           extractStyleAttributes(style))
       IN  getFormattedOps(d, a, child, attrs, preserveNewlines)

\* one iteration of the loop over element.childNodes
FormatChildNode(d, a, child, inheritedAttrs, preserveNewlines) ==
  IF d[child].tag = TEXT
  THEN LET text == d[child].text IN
       IF preserveNewlines /\ text # <<>>
       THEN <<createTextOp(text, inheritedAttrs)>>
       ELSE IF text # <<>> /\ Trim(text) # <<>>
       THEN <<createTextOp(Trim(text), inheritedAttrs)>>
       ELSE <<>>
  ELSE IF d[child].tag \in {"ul", "ol"}
  THEN <<>>
  ELSE LET style == StyleDeclarations(d, child)
           attrs == Spread(Spread(inheritedAttrs,
                                  getTagAttributes(a, d, child, style)),
                           extractStyleAttributes(style))
       IN  getFormattedOps(d, a, child, attrs, preserveNewlines)

FormatChildNodes(d, a, kids, inheritedAttrs, preserveNewlines) ==
  IF kids = <<>> THEN <<>>
  ELSE FormatChildNode(d, a, Head(kids), inheritedAttrs, preserveNewlines)
       \o FormatChildNodes(d, a, Tail(kids), inheritedAttrs, preserveNewlines)

getFormattedOps(d, a, element, inheritedAttrs, preserveNewlines) ==
  FormatChildNodes(d, a, ChildNodes(d, element), inheritedAttrs, preserveNewlines)

\* context.getFormattedOps(element, options)
ContextGetFormattedOps(d, a, element, preserveNewlines) ==
  getFormattedOps(d, a, element, NoAttrs, preserveNewlines)

(***************************************************************************)
(* Numbers: parseInt can return NaN, and every comparison with NaN is      *)
(* false.                                                                  *)
(***************************************************************************)
NaN == [nan |-> TRUE, val |-> 0]

Num(n) == [nan |-> FALSE, val |-> n]

\* x > n
Gt(x, n) == ~x.nan /\ x.val > n

\* x - n
Minus(x, n) == IF x.nan THEN NaN ELSE Num(x.val - n)

Digits == <<"0", "1", "2", "3", "4", "5", "6", "7", "8", "9">>

IsDigit(c) == \E k \in 1..Len(Digits) : Digits[k] = c

DigitValue(c) == (CHOOSE k \in 1..Len(Digits) : Digits[k] = c) - 1

RECURSIVE ParseDigits(_, _)
\* value of the longest run of leading digits of s, continuing from acc
ParseDigits(s, acc) ==
  IF s # <<>> /\ IsDigit(Head(s))
  THEN ParseDigits(Tail(s), 10 * acc + DigitValue(Head(s)))
  ELSE acc

\* parseInt(s, 10)
parseInt(s) ==
  LET t    == TrimStart(s)
      neg  == t # <<>> /\ Head(t) = "-"
      body == IF t # <<>> /\ Head(t) \in {"-", "+"} THEN Tail(t) ELSE t
  IN  IF body = <<>> \/ ~IsDigit(Head(body)) THEN NaN
      ELSE IF neg THEN Num(0 - ParseDigits(body, 0))
      ELSE Num(ParseDigits(body, 0))

(***************************************************************************)
(* Site adapters.                                                          *)
(***************************************************************************)
\* NotionAdapter.getListLevel: count the ul/ol ancestors, at least 1
NotionGetListLevel(d, node) ==
  LET level == Cardinality({j \in Ancestors(d, node) : d[j].tag \in {"ul", "ol"}})
  IN  IF level # 0 THEN Num(level) ELSE Num(1)

\* GoogleDocsAdapter.getListLevel: aria-level when present, else 1
GoogleDocsGetListLevel(d, node) ==
  IF HasAttribute(d, node, "aria-level") /\ d[node].attrs["aria-level"] # <<>>
  THEN parseInt(d[node].attrs["aria-level"])
  ELSE Num(1)

\* context.adapter.getListLevel(element)
getListLevel(a, d, node) ==
  IF a = "notion" THEN NotionGetListLevel(d, node)
  ELSE GoogleDocsGetListLevel(d, node)

(***************************************************************************)
(* TreeWalker over the elements below <body>, and skipDescendants.         *)
(***************************************************************************)
\* walker.nextNode() returns a node
HasNextNode(d, c) == \E j \in Elements(d) : j > c

\* walker.nextNode(): the next element in document order
nextNode(d, c) == CHOOSE j \in Elements(d) : j > c /\ \A k \in Elements(d) : k > c => j <= k

\* walker.previousNode(): the previous element in document order, or the root
previousNode(d, c) ==
  IF \E j \in Elements(d) : j < c
  THEN CHOOSE j \in Elements(d) : j < c /\ \A k \in Elements(d) : k < c => k <= j
  ELSE BODY

RECURSIVE skipDescendantsAlwaysBack(_, _, _)
skipDescendantsAlwaysBack(d, c, node) ==
  IF ~HasNextNode(d, c) THEN previousNode(d, c)
  ELSE LET next == nextNode(d, c)
       IN  IF Contains(d, node, next)
           THEN skipDescendantsAlwaysBack(d, next, node)
           ELSE previousNode(d, next)

skipDescendantsNoBack(d, c, node) ==
  IF HasNextNode(d, c) THEN nextNode(d, c) ELSE c

RECURSIVE skipDescendants(_, _, _)
\* The walker position after skipDescendants(walker, node), called with the
\* walker at c
skipDescendants(d, c, node) ==
  IF ~HasNextNode(d, c) THEN c
  ELSE LET next == nextNode(d, c)
       IN  IF Contains(d, node, next)
           THEN skipDescendants(d, next, node)
           ELSE previousNode(d, next)

(***************************************************************************)
(* Block handlers.                                                         *)
(***************************************************************************)
IsHeadingTag(tag) == tag \in {"h1", "h2", "h3", "h4", "h5", "h6"}

canHandleDivForParagraphs(h, d, e) ==
  CASE h = "blockquote" -> d[e].tag = "blockquote" /\ ~Closest(d, e, "li")
    [] h = "code-block" -> d[e].tag = "pre"
    [] h = "list-item"  -> d[e].tag = "li"
    [] h = "paragraph"  -> d[e].tag = "p" /\ ~Closest(d, e, "li")
    [] h = "heading"    -> IsHeadingTag(d[e].tag) /\ ~Closest(d, e, "li")
    [] h = "div"        -> d[e].tag \in {"div", "p"} /\ ~Closest(d, e, "li")

canHandle(h, d, e) ==
  CASE h = "blockquote" -> d[e].tag = "blockquote" /\ ~Closest(d, e, "li")
    [] h = "code-block" -> d[e].tag = "pre"
    [] h = "list-item"  -> d[e].tag = "li"
    [] h = "paragraph"  -> d[e].tag = "p" /\ ~Closest(d, e, "li")
    [] h = "heading"    -> IsHeadingTag(d[e].tag) /\ ~Closest(d, e, "li")
    [] h = "div"        -> d[e].tag = "div" /\ ~Closest(d, e, "li")
                                            /\ ~Closest(d, e, "p")

BLOCK_HANDLERS ==
  <<"blockquote", "code-block", "list-item", "paragraph", "heading", "div">>

\* The handler the dispatch loop runs for element e: the first that matches
RECURSIVE FirstMatch(_, _, _)
FirstMatch(hs, d, e) ==
  IF hs = <<>> THEN "none"
  ELSE IF canHandle(Head(hs), d, e) THEN Head(hs)
  ELSE FirstMatch(Tail(hs), d, e)

SelectHandler(d, e) == FirstMatch(BLOCK_HANDLERS, d, e)

NewlineOp == [insert |-> <<NL>>]

\* paragraphHandler.handle
paragraphHandle(d, a, e) ==
  LET contentOps == ContextGetFormattedOps(d, a, e, FALSE)
  IN  IF Len(contentOps) > 0 THEN contentOps \o <<NewlineOp>> ELSE <<>>

headingHandleBold(d, a, e) ==
  LET contentOps == ContextGetFormattedOps(d, a, e, FALSE)
  IN  IF Len(contentOps) > 0
      THEN [k \in 1..Len(contentOps) |->
              [insert |-> contentOps[k].insert, attributes |-> ("bold" :> TRUE)]]
           \o <<NewlineOp>>
      ELSE <<>>

\* headingHandler.handle
headingHandle(d, a, e) ==
  LET contentOps == ContextGetFormattedOps(d, a, e, FALSE)
  IN  IF Len(contentOps) > 0 THEN contentOps \o <<NewlineOp>> ELSE <<>>

INLINE_TAGS ==
  {"span", "a", "b", "i", "u", "s", "em", "strong", "code", "del", "strike"}

\* divHandler.handle
divHandle(d, a, e) ==
  LET hasTextContent ==
        \E c \in Children(d, e) : d[c].tag = TEXT /\ Trim(d[c].text) # <<>>
      hasInlineElements == QuerySelector(d, e, INLINE_TAGS) # 0
  IN  IF hasTextContent \/ hasInlineElements
      THEN LET contentOps == ContextGetFormattedOps(d, a, e, FALSE)
           IN  IF Len(contentOps) > 0 THEN contentOps \o <<NewlineOp>> ELSE <<>>
      ELSE <<>>

ORDERED_LIST_PATTERNS == {"decimal", "number", "alpha", "roman"}

\* element.style?.listStyleType ?? ""
ListStyleType(d, e) ==
  IF HasAttribute(d, e, "list-style-type") THEN d[e].attrs["list-style-type"]
  ELSE ""

\* The characters of the list style names and of the patterns
Chars(str) ==
  CASE str = ""            -> <<>>
    [] str = "disc"        -> <<"d", "i", "s", "c">>
    [] str = "decimal"     -> <<"d", "e", "c", "i", "m", "a", "l">>
    [] str = "lower-alpha" -> <<"l", "o", "w", "e", "r", "-", "a", "l", "p", "h", "a">>
    [] str = "upper-roman" -> <<"u", "p", "p", "e", "r", "-", "r", "o", "m", "a", "n">>
    [] str = "numbered"    -> <<"n", "u", "m", "b", "e", "r", "e", "d">>
    [] str = "number"      -> <<"n", "u", "m", "b", "e", "r">>
    [] str = "alpha"       -> <<"a", "l", "p", "h", "a">>
    [] str = "roman"       -> <<"r", "o", "m", "a", "n">>

\* s occurs in t as a run of consecutive characters
IsSubstring(s, t) ==
  \E i \in 0..(Len(t) - Len(s)) : SubSeq(t, i + 1, i + Len(s)) = s

IsOrderedByParentOnly(d, e) ==
  LET parentTag == IF d[e].parent = BODY THEN "body" ELSE d[d[e].parent].tag
  IN  parentTag = "ol"

\* isOrdered: the parent is <ol> or the list style numbers the items
IsOrdered(d, e) ==
  LET listType  == ListStyleType(d, e)
      parentTag == IF d[e].parent = BODY THEN "body" ELSE d[d[e].parent].tag
  IN  parentTag = "ol" \/ \E p \in ORDERED_LIST_PATTERNS :
                            IsSubstring(Chars(p), Chars(listType))

ListAttrsIndentFromLevelOne(d, a, e) ==
  LET level == getListLevel(a, d, e)
      attrs == "list" :> (IF IsOrdered(d, e) THEN "ordered" ELSE "bullet")
  IN  IF Gt(level, 0)
      THEN Spread(attrs, "indent" :> Minus(level, 1).val)
      ELSE attrs

\* The attributes of the list item's newline
ListAttrs(d, a, e) ==
  LET level == getListLevel(a, d, e)
      attrs == "list" :> (IF IsOrdered(d, e) THEN "ordered" ELSE "bullet")
  IN  IF Gt(level, 1)
      THEN Spread(attrs, "indent" :> Minus(level, 1).val)
      ELSE attrs

listItemHandleAttrsOnText(d, a, e) ==
  LET contentOps == ContextGetFormattedOps(d, a, e, FALSE)
  IN  [k \in 1..Len(contentOps) |->
         [insert |-> contentOps[k].insert, attributes |-> ListAttrs(d, a, e)]]
      \o <<NewlineOp>>

\* listItemHandler.handle
listItemHandle(d, a, e) ==
  LET contentOps == ContextGetFormattedOps(d, a, e, FALSE)
  IN  contentOps \o <<[attributes |-> ListAttrs(d, a, e), insert |-> <<NL>>]>>

\* codeBlockHandler.handle
RECURSIVE CodeLineOps(_)
CodeLineOps(lines) ==
  IF lines = <<>> THEN <<>>
  ELSE (IF Head(lines) # <<>> THEN <<[insert |-> Head(lines)]>> ELSE <<>>)
       \o <<[attributes |-> ("code-block" :> TRUE), insert |-> <<NL>>]>>
       \o CodeLineOps(Tail(lines))

codeBlockHandleNoStrip(d, a, e) ==
  LET codeElement == QuerySelector(d, e, {"code"})
      rawText == IF codeElement # 0 THEN TextContent(d, codeElement)
                 ELSE TextContent(d, e)
  IN  IF rawText # <<>> THEN CodeLineOps(SplitLines(rawText)) ELSE <<>>

codeBlockHandle(d, a, e) ==
  LET codeElement == QuerySelector(d, e, {"code"})
      rawText == IF codeElement # 0 THEN TextContent(d, codeElement)
                 ELSE TextContent(d, e)
      text == TrimEnd(rawText)
  IN  IF text # <<>> THEN CodeLineOps(SplitLines(text)) ELSE <<>>

\* buildCharInfoArray
buildCharInfoArray(contentOps) ==
  Concat([k \in 1..Len(contentOps) |->
            [j \in 1..Len(contentOps[k].insert) |->
               IF HasAttributes(contentOps[k])
               THEN [char |-> contentOps[k].insert[j],
                     attrs |-> contentOps[k].attributes]
               ELSE [char |-> contentOps[k].insert[j]]]])

RECURSIVE trimLineStart(_)
trimLineStart(line) ==
  IF line # <<>> /\ IsWhitespace(Head(line).char)
  THEN trimLineStart(Tail(line)) ELSE line

RECURSIVE trimLineEnd(_)
trimLineEnd(line) ==
  IF line # <<>> /\ IsWhitespace(line[Len(line)].char)
  THEN trimLineEnd(SubSeq(line, 1, Len(line) - 1)) ELSE line

trimLineKeepsAll(line) == line

\* trimLine
trimLine(line) == trimLineEnd(trimLineStart(line))

\* JSON.stringify(charInfo.attrs ?? {})
AttrsKey(ci) == IF "attrs" \in DOMAIN ci THEN ci.attrs ELSE NoAttrs

RECURSIVE RunLength(_, _)
\* length of the leading run of line whose attributes stringify to key
RunLength(line, key) ==
  IF line # <<>> /\ AttrsKey(Head(line)) = key
  THEN 1 + RunLength(Tail(line), key) ELSE 0

RECURSIVE convertLineToOps(_)
\* convertLineToOps
convertLineToOps(line) ==
  IF line = <<>> THEN <<>>
  ELSE LET n    == RunLength(line, AttrsKey(Head(line)))
           text == [j \in 1..n |-> line[j].char]
           op   == IF "attrs" \in DOMAIN Head(line) /\ DOMAIN Head(line).attrs # {}
                   THEN [insert |-> text, attributes |-> Head(line).attrs]
                   ELSE [insert |-> text]
       IN  <<op>> \o convertLineToOps(SubSeq(line, n + 1, Len(line)))

\* flushLine: the operations of the current line
flushLine(currentLine) ==
  LET trimmed == trimLine(currentLine)
  IN  IF Len(trimmed) = 0 THEN <<>>
      ELSE convertLineToOps(trimmed)
           \o <<[attributes |-> ("blockquote" :> TRUE), insert |-> <<NL>>]>>

RECURSIVE BlockquoteLines(_, _)
\* the loop over chars, then the final flushLine
BlockquoteLines(chars, currentLine) ==
  IF chars = <<>> THEN flushLine(currentLine)
  ELSE IF Head(chars).char = NL
  THEN flushLine(currentLine) \o BlockquoteLines(Tail(chars), <<>>)
  ELSE BlockquoteLines(Tail(chars), Append(currentLine, Head(chars)))

\* blockquoteHandler.handle
blockquoteHandle(d, a, e) ==
  BlockquoteLines(buildCharInfoArray(ContextGetFormattedOps(d, a, e, TRUE)), <<>>)

\* handler.handle(element, context): the operations returned
handle(h, d, a, e) ==
  CASE h = "blockquote" -> blockquoteHandle(d, a, e)
    [] h = "code-block" -> codeBlockHandle(d, a, e)
    [] h = "list-item"  -> listItemHandle(d, a, e)
    [] h = "paragraph"  -> paragraphHandle(d, a, e)
    [] h = "heading"    -> headingHandle(d, a, e)
    [] h = "div"        -> divHandle(d, a, e)

SkipsDescendantsAlways(h) == TRUE

\* whether handle calls context.skipDescendants(element)
SkipsDescendants(h) == h # "list-item"

\* ops.push(...handler.handle(element, context))
PushAllFront(out, new) == new \o out

PushAll(out, new) == out \o new

(***************************************************************************)
(* convertToPlainText.                                                     *)
(***************************************************************************)
\* the bullet character U+2022
BULLET == "*"

\* "    ".repeat(level)
Indent(level) == [i \in 1..(4 * level) |-> SP]

RECURSIVE processNode(_, _, _)
RECURSIVE ProcessChildNodes(_, _, _)

\* one iteration of the loop over node.childNodes: the text added to result
ProcessChildNode(d, child, level) ==
  IF d[child].tag = TEXT THEN Trim(d[child].text)
  ELSE IF d[child].tag = "li"
  THEN Indent(level) \o <<BULLET, SP>> \o Trim(TextContent(d, child)) \o <<NL>>
  ELSE IF d[child].tag \in {"ul", "ol"} THEN processNode(d, child, level + 1)
  ELSE IF d[child].tag = "p" THEN Trim(TextContent(d, child)) \o <<NL>>
  ELSE IF d[child].tag = "br" THEN <<NL>>
  ELSE processNode(d, child, level)

ProcessChildNodes(d, kids, level) ==
  IF kids = <<>> THEN <<>>
  ELSE ProcessChildNode(d, Head(kids), level)
       \o ProcessChildNodes(d, Tail(kids), level)

processNode(d, node, level) == ProcessChildNodes(d, ChildNodes(d, node), level)

convertToPlainText(d) == processNode(d, BODY, 0)

\* containsLists: /<li[\s>]/i.test(html)
containsLists(d) == \E i \in 1..Len(d) : d[i].tag = "li"

(***************************************************************************)
(* The keydown handler returned by createContentScriptHandler, and a       *)
(* second conversion of the same input.                                    *)
(***************************************************************************)
Events ==
  { [ctrlKey |-> TRUE,  metaKey |-> FALSE, key |-> "c"],
    [ctrlKey |-> FALSE, metaKey |-> TRUE,  key |-> "c"],
    [ctrlKey |-> FALSE, metaKey |-> FALSE, key |-> "c"],
    [ctrlKey |-> TRUE,  metaKey |-> FALSE, key |-> "v"] }

\* options.htmlFilter: absent, or containsLists
Filters == {"none", "containsLists"}

isCopyShortcutAnyKey(e) == e.metaKey \/ e.ctrlKey \/ e.key = "c"

isCopyShortcut(e) == (e.metaKey \/ e.ctrlKey) /\ e.key = "c"

HandlerState(p, f) ==
  [pc |-> p, filter |-> f,
   event |-> [ctrlKey |-> FALSE, metaKey |-> FALSE, key |-> ""], html |-> "unread",
   calls |-> <<>>, plainText |-> <<>>]

CallState(p) == [pc |-> p, at |-> "none", ops |-> <<>>, plain |-> <<>>]

RECURSIVE DispatchLoop(_, _, _, _)
\* while ((node = walker.nextNode())) { ... } run to its end from cursor c,
\* adding to the operations out
DispatchLoop(d, a, c, out) ==
  IF ~HasNextNode(d, c) THEN out
  ELSE LET element == nextNode(d, c)
           h       == SelectHandler(d, element)
       IN  IF h = "none" THEN DispatchLoop(d, a, element, out)
           ELSE DispatchLoop(d, a,
                             IF SkipsDescendants(h)
                             THEN skipDescendants(d, element, element)
                             ELSE element,
                             PushAll(out, handle(h, d, a, element)))

NewOpsShared == ops

\* const ops: SlackTextOp[] = []
NewOps == <<>>

(***************************************************************************)
(* Settings storage and the toggles of the popup.                          *)
(***************************************************************************)
\* getDefaultProviderSettings: every registered provider, enabled
getDefaultProviderSettings == [id \in Adapters |-> [enabled |-> TRUE]]

DEFAULT_SETTINGS ==
  [globalEnabled |-> TRUE, providers |-> getDefaultProviderSettings]

\* getSettings, after pitaSettings.getValue() has resolved to stored
getSettings(stored) ==
  [globalEnabled |-> stored.globalEnabled,
   providers     |-> Spread(DEFAULT_SETTINGS.providers, stored.providers)]

\* isProviderEnabled, on the settings getSettings returned
isProviderEnabled(settings, providerId) ==
  IF ~settings.globalEnabled THEN FALSE
  ELSE IF providerId \in DOMAIN settings.providers
  THEN settings.providers[providerId].enabled
  ELSE TRUE

\* toggleGlobalEnabled, between its two awaits
toggleGlobalEnabled(settings) == [settings EXCEPT !.globalEnabled = ~@]

toggleProviderEnabledCreatesDisabled(settings, providerId) ==
  LET created == IF providerId \in DOMAIN settings.providers THEN settings
                 ELSE [settings EXCEPT
                         !.providers = Spread(@, providerId :> [enabled |-> FALSE])]
  IN  [created EXCEPT !.providers[providerId].enabled = ~@]

\* toggleProviderEnabled, between its two awaits
toggleProviderEnabled(settings, providerId) ==
  LET created == IF providerId \in DOMAIN settings.providers THEN settings
                 ELSE [settings EXCEPT
                         !.providers = Spread(@, providerId :> [enabled |-> TRUE])]
  IN  [created EXCEPT !.providers[providerId].enabled = ~@]

\* What the popup toggles: the global switch, a registered provider, or a
\* provider id that has no entry yet
ToggleTargets == {"global"} \cup Adapters \cup {"new-provider"}

\* The stored values explored: nothing stored (the fallback), or a stored
\* object holding entries for some of the providers
StoredSettings ==
  { [globalEnabled |-> g, providers |-> pr] :
      g \in BOOLEAN,
      pr \in UNION { [ids -> {[enabled |-> TRUE], [enabled |-> FALSE]}]
                       : ids \in SUBSET Adapters } }

ToggleState(p) ==
  [pc |-> p, target |-> "none", settings |-> DEFAULT_SETTINGS,
   result |-> FALSE, before |-> DEFAULT_SETTINGS, after |-> DEFAULT_SETTINGS,
   overlapped |-> FALSE]

\* The content script of a provider
ScriptState(p) == [pc |-> p, enabled |-> TRUE, pending |-> 0]

\* lib/ui/notification: the module state and the pending timers
NotificationState(p) ==
  [pc |-> p, notificationElement |-> (p = "on"), display |-> "none",
   slideOut |-> FALSE, hideTimeoutId |-> 0, timers |-> {}, nextId |-> 1,
   now |-> 0, calls |-> 0, lastCall |-> 0]

\* The adapter's listener bookkeeping and the page it listens to
PageState(p) ==
  [pc |-> p, keydownHandler |-> 0, listeners |-> {}, iframes |-> <<>>,
   iframeHandlers |-> {}, attachTimeouts |-> <<>>, timers |-> {},
   nextId |-> 1, setups |-> 0, registered |-> {}, attached |-> {},
   cleaned |-> FALSE]

\* The background script and the tab whose icon it sets
IconState(p) ==
  [pc |-> p, url |-> "", urlChanges |-> 0, version |-> 0, updates |-> <<>>,
   applied |-> "none", appliedVersion |-> 0, newestApplied |-> 0]

\* Nothing of the extension runs besides the converter
ExtensionOff ==
  /\ store = DEFAULT_SETTINGS
  /\ toggles = <<>>
  /\ script = ScriptState("off")
  /\ note = NotificationState("off")
  /\ page = PageState("off")
  /\ icon = IconState("off")

InitWith(nodes, listNodes, formatNodes, codeNodes) ==
  /\ doc = <<>>
  /\ adapter \in Adapters
  /\ cur = BODY
  /\ ops = <<>>
  /\ log = <<>>
  /\ pc = "parse"
  /\ limit = [nodes |-> nodes, listNodes |-> listNodes,
              formatNodes |-> formatNodes, codeNodes |-> codeNodes]

\* convertToSlackTexty called directly: no handler, no second conversion
Init ==
  /\ InitWith(MaxNodes, MaxListNodes, MaxFormatNodes, MaxCodeNodes)
  /\ hnd = HandlerState("off", "none")
  /\ second = CallState("off")
  /\ ExtensionOff

FairInit ==
  /\ InitWith(MaxFairNodes, MaxFairNodes, MaxFairNodes, MaxFairNodes)
  /\ hnd = HandlerState("off", "none")
  /\ second = CallState("off")
  /\ ExtensionOff

\* createContentScriptHandler(options) has returned the handler
HandlerInit ==
  /\ InitWith(MaxHandlerNodes, MaxListNodes, MaxHandlerNodes, MaxHandlerNodes)
  /\ \E f \in Filters : hnd = HandlerState("idle", f)
  /\ second = CallState("idle")
  /\ ExtensionOff

\* The nodes the bounds admit as the next node of the document
NextNodes(d, l) ==
  { nd \in NodesFor(d, BlockTags \cup InlineTags \cup {TEXT}) :
      \/ Len(d) < l.nodes
      \/ Len(d) < l.listNodes /\ IsListDoc(Append(d, nd)) }
  \cup (IF Len(d) < l.formatNodes /\ IsFormatDoc(d) THEN FormatNodes(d) ELSE {})
  \cup (IF Len(d) < l.codeNodes /\ IsCodeDoc(d) THEN CodeNodes(d) ELSE {})

\* The HTML parser inserts the next node of the source
ParseNode ==
  /\ pc = "parse"
  /\ hnd.pc \in {"off", "idle"}
  /\ \E nd \in NextNodes(doc, limit) : doc' = Append(doc, nd)
  /\ UNCHANGED <<adapter, cur, ops, log, pc, limit, hnd, second,
               store, toggles, script, note, page, icon>>

\* document.createTreeWalker(doc.body, NodeFilter.SHOW_ELEMENT, null)
CreateTreeWalker ==
  /\ pc = "parse"
  /\ hnd.pc \in {"off", "convert"}
  /\ pc' = "walk"
  /\ ops' = NewOps
  /\ cur' = BODY
  /\ UNCHANGED <<doc, adapter, log, limit, hnd, second,
               store, toggles, script, note, page, icon>>

\* One iteration of the dispatch loop in which handler h processes the
\* element the walker returns
HandlerStep(h) ==
  LET element == nextNode(doc, cur)
      out     == handle(h, doc, adapter, element)
  IN  /\ SelectHandler(doc, element) = h
      /\ ops' = PushAll(ops, out)
      /\ log' = Append(log, [element |-> element, handler |-> h, out |-> out])
      /\ cur' = IF SkipsDescendants(h)
                THEN skipDescendants(doc, element, element)
                ELSE element
      /\ UNCHANGED <<doc, adapter, pc, limit, hnd, second,
               store, toggles, script, note, page, icon>>

DispatchBlockquote ==
  /\ pc = "walk" /\ HasNextNode(doc, cur)
  /\ HandlerStep("blockquote")

DispatchCodeBlock ==
  /\ pc = "walk" /\ HasNextNode(doc, cur)
  /\ HandlerStep("code-block")

DispatchListItem ==
  /\ pc = "walk" /\ HasNextNode(doc, cur)
  /\ HandlerStep("list-item")

DispatchParagraph ==
  /\ pc = "walk" /\ HasNextNode(doc, cur)
  /\ HandlerStep("paragraph")

DispatchHeading ==
  /\ pc = "walk" /\ HasNextNode(doc, cur)
  /\ HandlerStep("heading")

DispatchDiv ==
  /\ pc = "walk" /\ HasNextNode(doc, cur)
  /\ HandlerStep("div")

\* No handler matches: the element is skipped
DispatchUnhandled ==
  /\ pc = "walk"
  /\ HasNextNode(doc, cur)
  /\ LET element == nextNode(doc, cur)
     IN  /\ SelectHandler(doc, element) = "none"
         /\ cur' = element
         /\ log' = Append(log, [element |-> element, handler |-> "none",
                                out |-> <<>>])
  /\ UNCHANGED <<doc, adapter, ops, pc, limit, hnd, second,
               store, toggles, script, note, page, icon>>

\* walker.nextNode() returns null: return { ops }
Finish ==
  /\ pc = "walk"
  /\ ~HasNextNode(doc, cur)
  /\ pc' = "done"
  /\ UNCHANGED <<doc, adapter, cur, ops, log, limit, hnd, second,
               store, toggles, script, note, page, icon>>

Next ==
  \/ ParseNode
  \/ CreateTreeWalker
  \/ DispatchBlockquote
  \/ DispatchCodeBlock
  \/ DispatchListItem
  \/ DispatchParagraph
  \/ DispatchHeading
  \/ DispatchDiv
  \/ DispatchUnhandled
  \/ Finish

Spec == Init /\ [][Next]_vars

\* A keydown event reaches the listener of the content script, which
\* returns when the provider is disabled and otherwise awaits the handler
KeyDown ==
  /\ hnd.pc = "idle"
  /\ pc = "parse"
  /\ \E e \in Events :
       hnd' = IF ~script.enabled \/ ~isCopyShortcut(e)
              THEN [hnd EXCEPT !.event = e, !.pc = "returned"]
              ELSE [hnd EXCEPT !.event = e, !.pc = "wait",
                               !.calls = Append(@, "waitForClipboard")]
  /\ UNCHANGED <<doc, adapter, cur, ops, log, pc, limit, second,
               store, toggles, script, note, page, icon>>

\* The timer of waitForClipboard fires: readClipboardHtml is called
ClipboardWaited ==
  /\ hnd.pc = "wait"
  /\ hnd' = [hnd EXCEPT !.pc = "read", !.calls = Append(@, "readClipboardHtml")]
  /\ UNCHANGED <<doc, adapter, cur, ops, log, pc, limit, second,
               store, toggles, script, note, page, icon>>

\* readClipboardHtml resolves to null: the read failed or there is no HTML
ClipboardReadNull ==
  /\ hnd.pc = "read"
  /\ hnd' = [hnd EXCEPT !.pc = "returned", !.html = "null"]
  /\ UNCHANGED <<doc, adapter, cur, ops, log, pc, limit, second,
               store, toggles, script, note, page, icon>>

\* readClipboardHtml resolves to the HTML of the clipboard; the handler
\* returns on empty or filtered HTML and otherwise calls convertToSlackTexty
ClipboardReadHtml ==
  /\ hnd.pc = "read"
  /\ hnd' =
       IF doc = <<>>
       THEN [hnd EXCEPT !.pc = "returned", !.html = "empty"]
       ELSE IF hnd.filter = "none"
       THEN [hnd EXCEPT !.pc = "convert", !.html = "html",
                        !.calls = Append(@, "convertToSlackTexty")]
       ELSE IF hnd.filter = "containsLists" /\ ~containsLists(doc)
       THEN [hnd EXCEPT !.pc = "returned", !.html = "html",
                        !.calls = Append(@, "htmlFilter")]
       ELSE [hnd EXCEPT !.pc = "convert", !.html = "html",
                        !.calls = @ \o <<"htmlFilter", "convertToSlackTexty">>]
  /\ UNCHANGED <<doc, adapter, cur, ops, log, pc, limit, second,
               store, toggles, script, note, page, icon>>

\* convertToSlackTexty has returned no operation: the handler returns
ConvertedNothing ==
  /\ hnd.pc = "convert"
  /\ pc = "done"
  /\ Len(ops) = 0
  /\ hnd' = [hnd EXCEPT !.pc = "returned"]
  /\ UNCHANGED <<doc, adapter, cur, ops, log, pc, limit, second,
               store, toggles, script, note, page, icon>>

\* convertToSlackTexty has returned operations: the handler converts to
\* plain text, writes the clipboard and shows the notification
WriteAndNotify ==
  /\ hnd.pc = "convert"
  /\ pc = "done"
  /\ Len(ops) # 0
  /\ hnd' = [hnd EXCEPT !.pc = "returned",
                        !.plainText = convertToPlainText(doc),
                        !.calls = @ \o <<"convertToPlainText", "writeSlackTexty",
                                         "showNotification">>]
  /\ UNCHANGED <<doc, adapter, cur, ops, log, pc, limit, second,
               store, toggles, script, note, page, icon>>

\* A second, complete call of convertToSlackTexty and convertToPlainText on
\* the HTML the handler works on; the calls are synchronous, so it runs
\* while the handler awaits or after its conversion
SecondCall ==
  /\ second.pc = "idle"
  /\ hnd.pc \notin {"off", "idle"}
  /\ pc # "walk"
  /\ second' = [pc    |-> "done",
                at    |-> pc,
                ops   |-> DispatchLoop(doc, adapter, BODY, NewOps),
                plain |-> convertToPlainText(doc)]
  /\ UNCHANGED <<doc, adapter, cur, ops, log, pc, limit, hnd,
               store, toggles, script, note, page, icon>>

HandlerNext ==
  \/ Next
  \/ KeyDown
  \/ ClipboardWaited
  \/ ClipboardReadNull
  \/ ClipboardReadHtml
  \/ ConvertedNothing
  \/ WriteAndNotify
  \/ SecondCall

HandlerSpec == HandlerInit /\ [][HandlerNext]_vars

\* The converter is synchronous: a conversion that can take a step takes it
FairSpec == FairInit /\ [][Next]_vars /\ WF_vars(Next)

(***************************************************************************)
(* The popup's toggle calls, and the content script that watches the       *)
(* settings.                                                               *)
(***************************************************************************)
\* pitaSettings.watch in the content script: the callback starts
\* isProviderEnabled, which awaits the storage read
ScriptNotified(sc) ==
  IF sc.pc = "on" THEN [sc EXCEPT !.pending = @ + 1] ELSE sc

\* The first idle update of the background script, 0 when there is none
IdleUpdate(ic) ==
  IF \E u \in DOMAIN ic.updates : ic.updates[u].pc = "idle"
  THEN CHOOSE u \in DOMAIN ic.updates :
         /\ ic.updates[u].pc = "idle"
         /\ \A v \in DOMAIN ic.updates : ic.updates[v].pc = "idle" => u <= v
  ELSE 0

\* updateIcon(tabId) is called: it awaits getTabInfo
UpdateIconCalled(ic) == [ic EXCEPT !.updates[IdleUpdate(ic)].pc = "tab"]

\* pitaSettings.watch in the background script: the callback queries the
\* tabs and calls updateIcon for the tab
IconNotified(ic) ==
  IF ic.pc = "on" THEN UpdateIconCalled([ic EXCEPT !.version = @ + 1]) ELSE ic

\* A click on a toggle of the popup: toggleGlobalEnabled or
\* toggleProviderEnabled is called and awaits getSettings
ToggleCalled ==
  \E c \in DOMAIN toggles, target \in ToggleTargets :
    /\ toggles[c].pc = "idle"
    /\ \A k \in DOMAIN toggles : k < c => toggles[k].pc # "idle"
    /\ toggles' =
         [k \in DOMAIN toggles |->
            IF k = c
            THEN [toggles[c] EXCEPT
                    !.pc = "read", !.target = target, !.before = store,
                    !.overlapped = \E o \in DOMAIN toggles :
                                     toggles[o].pc \in {"read", "save"}]
            ELSE IF toggles[k].pc \in {"read", "save"}
            THEN [toggles[k] EXCEPT !.overlapped = TRUE]
            ELSE toggles[k]]
    /\ UNCHANGED <<converterVars, store, script, note, page, icon>>

\* getSettings resolves: the call negates its flag in the object it read
\* and calls saveSettings with the whole object
ToggleRead ==
  \E c \in DOMAIN toggles :
    /\ toggles[c].pc = "read"
    /\ toggles' = [toggles EXCEPT
                     ![c].pc = "save",
                     ![c].settings =
                        IF toggles[c].target = "global"
                        THEN toggleGlobalEnabled(getSettings(store))
                        ELSE toggleProviderEnabled(getSettings(store),
                                                   toggles[c].target)]
    /\ UNCHANGED <<converterVars, store, script, note, page, icon>>

\* pitaSettings.setValue stores the object, the watchers are notified and
\* the call returns its flag
ToggleSaved ==
  \E c \in DOMAIN toggles :
    /\ toggles[c].pc = "save"
    /\ icon.pc = "on" => IdleUpdate(icon) # 0
    /\ store' = toggles[c].settings
    /\ toggles' = [toggles EXCEPT
                     ![c].pc = "done",
                     ![c].after = toggles[c].settings,
                     ![c].result =
                        IF toggles[c].target = "global"
                        THEN toggles[c].settings.globalEnabled
                        ELSE toggles[c].settings.providers[toggles[c].target].enabled]
    /\ script' = ScriptNotified(script)
    /\ icon' = IconNotified(icon)
    /\ UNCHANGED <<converterVars, note, page>>

SettingsInit ==
  /\ InitWith(0, 0, 0, 0)
  /\ hnd = HandlerState("off", "none")
  /\ second = CallState("off")
  /\ store \in StoredSettings
  /\ toggles = [c \in 1..MaxToggles |-> ToggleState("idle")]
  /\ script = ScriptState("off")
  /\ note = NotificationState("off")
  /\ page = PageState("off")
  /\ icon = IconState("off")

SettingsNext ==
  \/ ToggleCalled
  \/ ToggleRead
  \/ ToggleSaved

SettingsSpec == SettingsInit /\ [][SettingsNext]_vars

\* enabled = await isProviderEnabled(id) in the watcher of the content
\* script: the storage read of the oldest pending callback resolves
WatcherObserved ==
  /\ script.pc = "on"
  /\ script.pending > 0
  /\ script' = [script EXCEPT
                  !.pending = @ - 1,
                  !.enabled = isProviderEnabled(getSettings(store), adapter)]
  /\ UNCHANGED <<converterVars, store, toggles, note, page, icon>>

\* The content script has read its flag, registered its watcher and its
\* keydown listener
ScriptInit ==
  /\ InitWith(MaxScriptNodes, MaxScriptNodes, MaxScriptNodes, MaxScriptNodes)
  /\ hnd = HandlerState("idle", IF adapter = "google-docs"
                                 THEN "containsLists" ELSE "none")
  /\ second = CallState("off")
  /\ store = DEFAULT_SETTINGS
  /\ toggles = [c \in 1..MaxScriptToggles |-> ToggleState("idle")]
  /\ script = [ScriptState("on") EXCEPT
                 !.enabled = isProviderEnabled(getSettings(store), adapter)]
  /\ note = NotificationState("off")
  /\ page = PageState("off")
  /\ icon = IconState("off")

ScriptNext ==
  \/ Next
  \/ KeyDown
  \/ ClipboardWaited
  \/ ClipboardReadNull
  \/ ClipboardReadHtml
  \/ ConvertedNothing
  \/ WriteAndNotify
  \/ ToggleCalled
  \/ ToggleRead
  \/ ToggleSaved
  \/ WatcherObserved

ScriptSpec == ScriptInit /\ [][ScriptNext]_vars

(***************************************************************************)
(* The notification toast (lib/ui/notification).                           *)
(***************************************************************************)
NOTIFICATION_CONFIG == [duration |-> 2000, animationDuration |-> 300]

\* clearTimeout(id): a pending timer of that id is dropped; the id of a
\* timer that has fired, or no id, changes nothing
clearTimeout(timers, id) == { t \in timers : t.id # id }

\* setTimeout(callback, delay) at time now; kind names the callback
setTimeout(timers, id, kind, now, delay) ==
  timers \cup {[id |-> id, kind |-> kind, due |-> now + delay]}

\* The timers that are due; timers of one due time fire in creation order
DueTimers(timers, now) ==
  { t \in timers : /\ t.due <= now
                   /\ \A o \in timers : o.due < t.due \/ (o.due = t.due => t.id <= o.id) }

\* showNotification(message)
ShowNotification ==
  /\ note.pc = "on"
  /\ note.calls < MaxShows
  /\ note' =
       IF ~note.notificationElement
       THEN [note EXCEPT !.calls = @ + 1]
       ELSE [note EXCEPT
               !.timers = setTimeout(clearTimeout(@, note.hideTimeoutId),
                                     note.nextId, "hide", note.now,
                                     NOTIFICATION_CONFIG.duration),
               !.hideTimeoutId = note.nextId,
               !.nextId = @ + 1,
               !.slideOut = FALSE,
               !.display = "block",
               !.calls = @ + 1,
               !.lastCall = note.now]
  /\ UNCHANGED <<converterVars, store, toggles, script, page, icon>>

\* The auto-hide timer fires: slide out, and hide after the animation
HideTimerFires ==
  /\ note.pc = "on"
  /\ \E t \in DueTimers(note.timers, note.now) :
       /\ t.kind = "hide"
       /\ note' =
            IF ~note.notificationElement
            THEN [note EXCEPT !.timers = @ \ {t}]
            ELSE [note EXCEPT
                    !.timers = setTimeout(@ \ {t}, note.nextId, "remove", note.now,
                                          NOTIFICATION_CONFIG.animationDuration),
                    !.nextId = @ + 1,
                    !.slideOut = TRUE]
  /\ UNCHANGED <<converterVars, store, toggles, script, page, icon>>

\* The timer set by the auto-hide callback fires: display none
RemoveTimerFires ==
  /\ note.pc = "on"
  /\ \E t \in DueTimers(note.timers, note.now) :
       /\ t.kind = "remove"
       /\ note' = [note EXCEPT
                     !.timers = @ \ {t},
                     !.display = IF note.notificationElement THEN "none" ELSE @]
  /\ UNCHANGED <<converterVars, store, toggles, script, page, icon>>

\* cleanupNotification, with the onRemove of the shadow root UI
CleanupNotification ==
  /\ note.pc = "on"
  /\ note.notificationElement
  /\ note' = [note EXCEPT
                !.timers = clearTimeout(@, note.hideTimeoutId),
                !.hideTimeoutId = 0,
                !.notificationElement = FALSE]
  /\ UNCHANGED <<converterVars, store, toggles, script, page, icon>>

\* Time passes while a timer is pending, up to the next timer that is due
Tick ==
  /\ note.pc = "on"
  /\ note.timers # {}
  /\ note.now < MaxTime
  /\ \A t \in note.timers : t.due > note.now
  /\ \E next \in {note.now + TimeStep} \cup {t.due : t \in note.timers} :
       /\ next <= note.now + TimeStep
       /\ \A t \in note.timers : next <= t.due
       /\ next = note.now + TimeStep \/ \E t \in note.timers : t.due = next
       /\ note' = [note EXCEPT !.now = next]
  /\ UNCHANGED <<converterVars, store, toggles, script, page, icon>>

\* initNotification has mounted the element
NotificationInit ==
  /\ InitWith(0, 0, 0, 0)
  /\ hnd = HandlerState("off", "none")
  /\ second = CallState("off")
  /\ store = DEFAULT_SETTINGS
  /\ toggles = <<>>
  /\ script = ScriptState("off")
  /\ note = NotificationState("on")
  /\ page = PageState("off")
  /\ icon = IconState("off")

NotificationNext ==
  \/ ShowNotification
  \/ HideTimerFires
  \/ RemoveTimerFires
  \/ CleanupNotification
  \/ Tick

NotificationSpec == NotificationInit /\ [][NotificationNext]_vars

(***************************************************************************)
(* The adapters' keydown listeners (BaseAdapter, GoogleDocsAdapter).       *)
(***************************************************************************)
\* Listener targets: the main document (the iframe documents are 1, 2, ...)
DOCUMENT == 0

Listener(target, handler) == [target |-> target, handler |-> handler]

\* BaseAdapter.setupEventListeners
baseSetupEventListeners(pg, handler) ==
  [pg EXCEPT !.keydownHandler = handler,
             !.listeners = @ \cup {Listener(DOCUMENT, handler)}]

\* BaseAdapter.cleanup
baseCleanup(pg) ==
  IF pg.keydownHandler # 0
  THEN [pg EXCEPT !.listeners = @ \ {Listener(DOCUMENT, pg.keydownHandler)},
                  !.keydownHandler = 0]
  ELSE pg

\* iframe.contentDocument is readable and non-null
Accessible(pg) == { f \in DOMAIN pg.iframes : pg.iframes[f] = "accessible" }

attachToIframesUnchecked(pg, handler) ==
  LET fresh == Accessible(pg)
  IN  [pg EXCEPT
         !.listeners      = @ \cup { Listener(f, handler) : f \in fresh },
         !.attached       = @ \cup { Listener(f, handler) : f \in fresh },
         !.iframeHandlers = @ \cup { Listener(f, handler) : f \in fresh }]

\* GoogleDocsAdapter.attachToIframes
attachToIframes(pg, handler) ==
  LET fresh == { f \in Accessible(pg) :
                   ~\E e \in pg.iframeHandlers : e.target = f }
  IN  [pg EXCEPT
         !.listeners      = @ \cup { Listener(f, handler) : f \in fresh },
         !.attached       = @ \cup { Listener(f, handler) : f \in fresh },
         !.iframeHandlers = @ \cup { Listener(f, handler) : f \in fresh }]

\* GoogleDocsAdapter.setupEventListeners
googleDocsSetupEventListeners(pg, handler) ==
  LET attachedNow == attachToIframes(baseSetupEventListeners(pg, handler), handler)
  IN  [attachedNow EXCEPT
         !.timers = @ \cup {[id |-> pg.nextId, handler |-> handler, delay |-> 2000],
                            [id |-> pg.nextId + 1, handler |-> handler, delay |-> 5000]},
         !.attachTimeouts = @ \o <<pg.nextId, pg.nextId + 1>>,
         !.nextId = @ + 2]

clearTimeoutsKeepsPending(timers, ids) == timers

\* this.attachTimeouts.forEach((id) => window.clearTimeout(id))
clearTimeouts(timers, ids) ==
  { t \in timers : \A k \in 1..Len(ids) : ids[k] # t.id }

\* GoogleDocsAdapter.cleanup
googleDocsCleanup(pg) ==
  LET based   == baseCleanup(pg)
      removed == { e \in pg.iframeHandlers : e.target \in Accessible(pg) }
  IN  [based EXCEPT
         !.timers = clearTimeouts(@, pg.attachTimeouts),
         !.attachTimeouts = <<>>,
         !.listeners = @ \ removed,
         !.iframeHandlers = @ \ removed]

cleanup(a, pg) ==
  IF a = "google-docs" THEN googleDocsCleanup(pg) ELSE baseCleanup(pg)

\* adapter.setupEventListeners(handler) is called
SetupEventListeners ==
  /\ page.pc = "on"
  /\ page.setups < MaxSetups
  /\ \E handler \in 1..MaxSetups :
       page' = [(IF adapter = "google-docs"
                 THEN googleDocsSetupEventListeners(page, handler)
                 ELSE baseSetupEventListeners(page, handler)) EXCEPT
                  !.setups = @ + 1,
                  !.registered = @ \cup {handler},
                  !.cleaned = FALSE]
  /\ UNCHANGED <<converterVars, store, toggles, script, note, icon>>

\* A retry timer fires: attachToIframes(handler).  The 5 s timer of a call
\* fires after its 2 s timer.
RetryTimerFires ==
  /\ page.pc = "on"
  /\ \E t \in page.timers :
       /\ t.delay = 5000 => \A o \in page.timers : o.id # t.id - 1
       /\ page' = attachToIframes([page EXCEPT !.timers = @ \ {t}], t.handler)
  /\ UNCHANGED <<converterVars, store, toggles, script, note, icon>>

\* An iframe finishes loading: its document is same-origin or cross-origin
IframeLoads ==
  /\ page.pc = "on"
  /\ \E f \in DOMAIN page.iframes, kind \in {"accessible", "cross-origin"} :
       /\ page.iframes[f] = "absent"
       /\ page' = [page EXCEPT !.iframes[f] = kind]
  /\ UNCHANGED <<converterVars, store, toggles, script, note, icon>>

\* adapter.cleanup() is called
Cleanup ==
  /\ page.pc = "on"
  /\ page' = [cleanup(adapter, page) EXCEPT !.cleaned = TRUE]
  /\ UNCHANGED <<converterVars, store, toggles, script, note, icon>>

\* The adapter singleton is constructed; the page may already hold iframes
AdapterInit ==
  /\ InitWith(0, 0, 0, 0)
  /\ hnd = HandlerState("off", "none")
  /\ second = CallState("off")
  /\ store = DEFAULT_SETTINGS
  /\ toggles = <<>>
  /\ script = ScriptState("off")
  /\ note = NotificationState("off")
  /\ \E frames \in [1..MaxIframes -> {"absent", "accessible", "cross-origin"}] :
       page = [PageState("on") EXCEPT !.iframes = frames]
  /\ icon = IconState("off")

AdapterNext ==
  \/ SetupEventListeners
  \/ RetryTimerFires
  \/ IframeLoads
  \/ Cleanup

AdapterSpec == AdapterInit /\ [][AdapterNext]_vars

(***************************************************************************)
(* The background script: the toolbar icon of a tab.                       *)
(***************************************************************************)
TabUrls ==
  {"https://www.notion.so/workspace", "https://docs.google.com/document/d/123",
   "https://example.com/"}

\* getMatchingProviderId: the provider whose urlPatterns match, "" for none
getMatchingProviderId(url) ==
  CASE url = "https://www.notion.so/workspace"        -> "notion"
    [] url = "https://docs.google.com/document/d/123" -> "google-docs"
    [] OTHER                                          -> ""

\* isIconDisabled
isIconDisabled(globalEnabled, url, providerSettings) ==
  IF ~globalEnabled THEN TRUE
  ELSE LET providerId == getMatchingProviderId(url)
       IN  IF providerId = "" THEN TRUE
           ELSE IF providerId \in DOMAIN providerSettings
           THEN ~providerSettings[providerId].enabled
           ELSE TRUE

\* action.setIcon for the tab, by an update that read settings of the
\* given version
setIcon(ic, disabled, version) ==
  [ic EXCEPT !.applied = IF disabled THEN "disabled" ELSE "default",
             !.appliedVersion = version,
             !.newestApplied = IF version > @ THEN version ELSE @]

\* browser.tabs.onActivated: updateIcon(activeInfo.tabId)
TabActivated ==
  /\ icon.pc = "on"
  /\ IdleUpdate(icon) # 0
  /\ icon' = UpdateIconCalled(icon)
  /\ UNCHANGED <<converterVars, store, toggles, script, note, page>>

\* browser.tabs.onUpdated with a new URL: updateIcon(tabId)
TabUpdated ==
  /\ icon.pc = "on"
  /\ IdleUpdate(icon) # 0
  /\ icon.urlChanges < MaxUrlChanges
  /\ \E url \in TabUrls \ {icon.url} :
       icon' = UpdateIconCalled([icon EXCEPT !.url = url, !.urlChanges = @ + 1])
  /\ UNCHANGED <<converterVars, store, toggles, script, note, page>>

\* getTabInfo resolves with the tab's URL; the update awaits getSettings
TabInfoResolved ==
  /\ icon.pc = "on"
  /\ \E u \in DOMAIN icon.updates :
       /\ icon.updates[u].pc = "tab"
       /\ icon' = [icon EXCEPT !.updates[u].pc = "settings",
                               !.updates[u].url = icon.url]
  /\ UNCHANGED <<converterVars, store, toggles, script, note, page>>

\* getSettings resolves: isIconDisabled is computed and applyIconState is
\* called, which sets the default icon at once and awaits
\* getAllDisabledIcons before it sets the disabled one
SettingsResolved ==
  /\ icon.pc = "on"
  /\ \E u \in DOMAIN icon.updates :
       /\ icon.updates[u].pc = "settings"
       /\ LET settings == getSettings(store)
              disabled == isIconDisabled(settings.globalEnabled,
                                         icon.updates[u].url, settings.providers)
              read     == [icon EXCEPT !.updates[u].disabled = disabled,
                                       !.updates[u].version = icon.version,
                                       !.updates[u].pc =
                                          IF disabled THEN "icons" ELSE "done"]
          IN  icon' = IF disabled THEN read
                      ELSE setIcon(read, FALSE, icon.version)
  /\ UNCHANGED <<converterVars, store, toggles, script, note, page>>

\* getAllDisabledIcons resolves: the disabled icon is set
DisabledIconsLoaded ==
  /\ icon.pc = "on"
  /\ \E u \in DOMAIN icon.updates :
       /\ icon.updates[u].pc = "icons"
       /\ icon' = setIcon([icon EXCEPT !.updates[u].pc = "done"],
                          TRUE, icon.updates[u].version)
  /\ UNCHANGED <<converterVars, store, toggles, script, note, page>>

\* main() of the background script has registered its listeners and called
\* updateIcon() for the active tab
IconInit ==
  /\ InitWith(0, 0, 0, 0)
  /\ hnd = HandlerState("off", "none")
  /\ second = CallState("off")
  /\ store \in {DEFAULT_SETTINGS, [DEFAULT_SETTINGS EXCEPT !.globalEnabled = FALSE]}
  /\ toggles = [c \in 1..MaxIconToggles |-> ToggleState("idle")]
  /\ script = ScriptState("off")
  /\ note = NotificationState("off")
  /\ page = PageState("off")
  /\ \E url \in TabUrls :
       icon = [IconState("on") EXCEPT
                 !.url = url,
                 !.updates = [u \in 1..MaxIconUpdates |->
                                [pc |-> IF u = 1 THEN "tab" ELSE "idle",
                                 url |-> "", disabled |-> FALSE, version |-> 0]]]

IconNext ==
  \/ ToggleCalled
  \/ ToggleRead
  \/ ToggleSaved
  \/ TabActivated
  \/ TabUpdated
  \/ TabInfoResolved
  \/ SettingsResolved
  \/ DisabledIconsLoaded

IconSpec == IconInit /\ [][IconNext]_vars

(***************************************************************************)
(* Properties.                                                             *)
(***************************************************************************)
BlockAttributes == {"list", "indent", "blockquote", "code-block"}

HasBlockAttribute(op) == \E key \in BlockAttributes : HasAttr(op, key)

\* the text of the whole output
OutputText == Concat([k \in 1..Len(ops) |-> ops[k].insert])

Occurrences(s, c) == Cardinality({k \in 1..Len(s) : s[k] = c})

TextNodes(d) == {i \in 1..Len(d) : d[i].tag = TEXT}

\* the text nodes with visible text
VisibleTextNodes(d) == {i \in TextNodes(d) : Trim(d[i].text) # <<>>}

RECURSIVE IsSubsequence(_, _)
IsSubsequence(s, t) ==
  IF s = <<>> THEN TRUE
  ELSE IF t = <<>> THEN FALSE
  ELSE IF Head(s) = Head(t) THEN IsSubsequence(Tail(s), Tail(t))
  ELSE IsSubsequence(s, Tail(t))

\* the trimmed text of the visible text nodes, in document order
VisibleText(d) ==
  LET nodes == InOrder(VisibleTextNodes(d))
  IN  Concat([k \in 1..Len(nodes) |-> Trim(d[nodes[k]].text)])

Dispatched == {log[k].element : k \in 1..Len(log)}

\* the log entries of element e
EntriesOf(e) == {k \in 1..Len(log) : log[k].element = e}

\* C1: every operation of the output that carries a block attribute (list,
\* indent, blockquote, code-block) inserts exactly one newline; no text run
\* carries a block attribute.
C1_BlockAttrsOnlyOnNewline ==
  \A k \in 1..Len(ops) : HasBlockAttribute(ops[k]) => ops[k].insert = <<NL>>

\* A finished conversion whose output holds a text run with an inline
\* attribute followed by a list newline.
C1_Witness ==
  /\ pc = "done"
  /\ \E k \in 2..Len(ops) :
       /\ HasAttr(ops[k], "list")
       /\ HasAttr(ops[k - 1], "bold")
       /\ ops[k - 1].insert # <<NL>>

\* C2: a handler whose element formats to zero content operations emits no
\* operation at all, so no bare newline (attributed or plain) is emitted; this
\* includes an empty list item.
C2_NoBareNewline ==
  \A k \in 1..Len(log) :
    (/\ log[k].handler # "none"
     /\ ContextGetFormattedOps(doc, adapter, log[k].element,
                               log[k].handler = "blockquote") = <<>>)
    => log[k].out = <<>>

\* C3: every text node contributes its characters to the output at most once.
C3_TextAtMostOnce ==
  \A i \in TextNodes(doc) : \A j \in 1..Len(doc[i].text) :
    ~IsWhitespace(doc[i].text[j]) => Occurrences(OutputText, doc[i].text[j]) <= 1

\* C4: the output of a finished conversion contains, in document order, the
\* trimmed text of every visible text node of the body.
C4_AllTextPresent ==
  pc = "done" => IsSubsequence(VisibleText(doc), OutputText)

\* the first element after the subtree of e in document order, if any
FollowsSubtree(d, e) == {j \in Elements(d) : j > e /\ ~Contains(d, e, j)}

\* the log entries made by a handler that skips its subtree
SkippingEntries == {k \in 1..Len(log) : log[k].handler \notin {"list-item", "none"}}

\* C5: after a subtree-skipping handler processed E, the next element
\* dispatched is the first element after E's subtree (the walk ends if there
\* is none); no descendant of E is dispatched and no element outside E's
\* subtree is skipped.
C5_SkipLandsAfterSubtree ==
  /\ \A k \in SkippingEntries :
       LET e == log[k].element IN
       /\ k < Len(log) =>
            /\ log[k + 1].element \in FollowsSubtree(doc, e)
            /\ \A j \in FollowsSubtree(doc, e) : log[k + 1].element <= j
       /\ (k = Len(log) /\ pc = "done") => FollowsSubtree(doc, e) = {}
       /\ \A j \in Dispatched : j # e => ~Contains(doc, e, j)
  /\ pc = "done" =>
       \A j \in Elements(doc) :
         \/ j \in Dispatched
         \/ \E k \in SkippingEntries : Contains(doc, log[k].element, j)

\* A walk that stepped over the element descendants of a paragraph-like
\* element and then dispatched the element after it.
C5_Witness ==
  \E k \in SkippingEntries :
    /\ k < Len(log)
    /\ \E j \in Elements(doc) : j # log[k].element /\ Contains(doc, log[k].element, j)
    /\ log[k + 1].element > log[k].element + 1

\* C6: every visited element is handled by the first handler of
\* BLOCK_HANDLERS whose canHandle is true, and by no handler if none is; the
\* output is the concatenation of the handlers' results in document order.
C6_FirstMatchInOrder ==
  /\ \A k \in 1..Len(log) :
       LET e == log[k].element
           h == log[k].handler
           matching == {j \in 1..Len(BLOCK_HANDLERS) :
                          canHandle(BLOCK_HANDLERS[j], doc, e)}
       IN  /\ matching = {} => (h = "none" /\ log[k].out = <<>>)
           /\ matching # {} =>
                /\ h = BLOCK_HANDLERS[CHOOSE j \in matching :
                                        \A i \in matching : j <= i]
                /\ log[k].out = handle(h, doc, adapter, e)
  /\ \A k \in 1..(Len(log) - 1) : log[k].element < log[k + 1].element
  /\ ops = Concat([k \in 1..Len(log) |-> log[k].out])

\* A walk with an unmatched element and two handled elements that produced
\* operations.
C6_Witness ==
  /\ pc = "done"
  /\ \E k \in 1..Len(log) : log[k].handler = "none"
  /\ \E k, j \in 1..Len(log) :
       k < j /\ log[k].out # <<>> /\ log[j].out # <<>>

NoRevisit == \A k, j \in 1..Len(log) : k # j => log[k].element # log[j].element

\* C7: the conversion of a finite document terminates, and the step back of
\* skipDescendants never makes the loop dispatch an element twice.
C7_TerminatesWithoutRevisit == <>(pc = "done") /\ []NoRevisit

\* A finished walk in which skipDescendants stepped back before an element
\* that was then dispatched.
C7_Witness ==
  /\ pc = "done"
  /\ \E k \in SkippingEntries :
       k < Len(log) /\ log[k + 1].element \in FollowsSubtree(doc, log[k].element)

\* a list item reached from <body> through ul/ol/li elements only
IsNestedListItem(d, i) ==
  /\ d[i].tag = "li"
  /\ d[i].parent # BODY /\ d[d[i].parent].tag \in {"ul", "ol"}
  /\ \A j \in Ancestors(d, i) : d[j].tag \in {"ul", "ol", "li"}

\* the letters of the text nodes inside a ul/ol below element e
NestedListLetters(d, e) ==
  UNION { {d[t].text[j] : j \in 1..Len(d[t].text)} :
          t \in {x \in TextNodes(d) :
                   \E u \in Elements(d) :
                     /\ d[u].tag \in {"ul", "ol"}
                     /\ u # e /\ Contains(d, e, u) /\ Contains(d, u, x)} }

\* C8: in a finished conversion every list item reached through ul/ol
\* nesting yields exactly one newline carrying list, after its own content;
\* its operations precede those of the items nested in it, and its content
\* holds no text of a nested ul/ol.
C8_NestedListPreOrder ==
  pc = "done" =>
    \A i \in Elements(doc) : IsNestedListItem(doc, i) =>
      /\ Cardinality(EntriesOf(i)) = 1
      /\ LET k   == CHOOSE x \in EntriesOf(i) : TRUE
             out == log[k].out
         IN  /\ log[k].handler = "list-item"
             /\ {x \in 1..Len(out) : HasAttr(out[x], "list")} = {Len(out)}
             /\ out[Len(out)].insert = <<NL>>
             /\ \A x \in 1..(Len(out) - 1) : \A y \in 1..Len(out[x].insert) :
                  out[x].insert[y] \notin NestedListLetters(doc, i)
             /\ \A j \in Elements(doc) :
                  (IsNestedListItem(doc, j) /\ j # i /\ Contains(doc, i, j)) =>
                    \A kj \in EntriesOf(j) : k < kj

\* A finished conversion of a list item with text that holds a nested list
\* item with text.
C8_Witness ==
  /\ pc = "done"
  /\ \E i, j \in Elements(doc) :
       /\ IsNestedListItem(doc, i) /\ IsNestedListItem(doc, j)
       /\ i # j /\ Contains(doc, i, j)
       /\ \E k \in EntriesOf(i) : Len(log[k].out) = 2
       /\ \E k \in EntriesOf(j) : Len(log[k].out) = 2

\* the log entries of the list-item handler
ListItemEntries == {k \in 1..Len(log) : log[k].handler = "list-item"}

\* C9: the newline of a list item of level L carries indent = L - 1 when
\* L > 1 and no indent when L = 1; an indent, when present, is an integer
\* >= 1.
C9_IndentIsLevelMinusOne ==
  \A k \in ListItemEntries :
    LET level   == getListLevel(adapter, doc, log[k].element)
        newline == log[k].out[Len(log[k].out)]
    IN  /\ Gt(level, 1) =>
             (HasAttr(newline, "indent") /\ newline.attributes["indent"] = level.val - 1)
        /\ level = Num(1) => ~HasAttr(newline, "indent")
        /\ HasAttr(newline, "indent") =>
             (newline.attributes["indent"] \in Nat /\ newline.attributes["indent"] >= 1)

\* A finished conversion with list items of levels 1, 2 and 3.
C9_Witness ==
  /\ pc = "done"
  /\ \A n \in 1..3 : \E k \in ListItemEntries :
       getListLevel(adapter, doc, log[k].element) = Num(n)

\* C10: getListLevel of the adapter in use returns an integer >= 1 for every
\* list item it is asked about.
C10_ListLevelPositive ==
  \A k \in ListItemEntries :
    LET level == getListLevel(adapter, doc, log[k].element)
    IN  ~level.nan /\ level.val >= 1

\* a div without direct non-whitespace text and without an inline descendant
IsLayoutDiv(d, e) ==
  /\ d[e].tag = "div"
  /\ ~\E c \in Children(d, e) : d[c].tag = TEXT /\ Trim(d[c].text) # <<>>
  /\ QuerySelector(d, e, INLINE_TAGS) = 0

\* C11: a div with neither direct non-whitespace text nor an inline
\* descendant contributes no operations and its subtree is not skipped: in
\* a finished conversion the outermost p, li, pre, blockquote and heading
\* elements nested in it have been dispatched.
C11_LayoutDivIsTransparent ==
  /\ \A k \in 1..Len(log) :
       IsLayoutDiv(doc, log[k].element) =>
         log[k].out = <<>>
  /\ pc = "done" =>
       \A e \in Elements(doc) : IsLayoutDiv(doc, e) =>
         \A j \in Elements(doc) :
           (/\ j # e /\ Contains(doc, e, j)
            /\ doc[j].tag \in {"p", "li", "pre", "blockquote", "h1"}
            /\ \A x \in Ancestors(doc, j) : x = e \/ ~Contains(doc, e, x))
           => j \in Dispatched

\* the elements strictly between element e and its descendant t, outermost
\* first
PathBetween(d, e, t) == InOrder({x \in Ancestors(d, t) : x # e /\ Contains(d, e, x)})

\* text nodes below e that are not inside a ul/ol below e: the content the
\* inline formatter reads
ContentNodes(d, e) ==
  {t \in TextNodes(d) :
     /\ Contains(d, e, t)
     /\ \A k \in 1..Len(PathBetween(d, e, t)) :
          d[PathBetween(d, e, t)[k]].tag \notin {"ul", "ol"}}

RECURSIVE MergedAttrs(_, _, _)
\* the inline attributes of a text run below the elements of path
MergedAttrs(d, a, path) ==
  IF path = <<>> THEN NoAttrs
  ELSE LET x     == path[Len(path)]
           style == StyleDeclarations(d, x)
       IN  Spread(Spread(MergedAttrs(d, a, SubSeq(path, 1, Len(path) - 1)),
                         getTagAttributes(a, d, x, style)),
                  extractStyleAttributes(style))

\* the characters of a sequence of operations, each with the attributes of
\* its operation
CharsOf(out) ==
  Concat([k \in 1..Len(out) |->
            [j \in 1..Len(out[k].insert) |->
               [char  |-> out[k].insert[j],
                attrs |-> IF HasAttributes(out[k]) THEN out[k].attributes
                          ELSE NoAttrs]]])

\* the verbatim characters of the content of e, each with the attributes of
\* its text run
VerbatimChars(d, a, e) ==
  LET nodes == InOrder(ContentNodes(d, e))
  IN  Concat([k \in 1..Len(nodes) |->
                [j \in 1..Len(d[nodes[k]].text) |->
                   [char  |-> d[nodes[k]].text[j],
                    attrs |-> MergedAttrs(d, a, PathBetween(d, e, nodes[k]))]]])

RECURSIVE CharLines(_)
\* chars split at the newline characters
CharLines(chars) ==
  IF \E i \in 1..Len(chars) : chars[i].char = NL
  THEN LET i == CHOOSE j \in 1..Len(chars) :
                  chars[j].char = NL /\ \A k \in 1..(j - 1) : chars[k].char # NL
       IN  <<SubSeq(chars, 1, i - 1)>> \o CharLines(SubSeq(chars, i + 1, Len(chars)))
  ELSE <<chars>>

\* line without its leading and trailing whitespace characters
TrimmedLine(line) ==
  LET keep == {i \in 1..Len(line) : ~IsWhitespace(line[i].char)}
  IN  IF keep = {} THEN <<>>
      ELSE SubSeq(line, CHOOSE i \in keep : \A j \in keep : i <= j,
                        CHOOSE i \in keep : \A j \in keep : j <= i)

RECURSIVE NonEmpty(_)
NonEmpty(lines) ==
  IF lines = <<>> THEN <<>>
  ELSE (IF Head(lines) # <<>> THEN <<Head(lines)>> ELSE <<>>) \o NonEmpty(Tail(lines))

\* the trimmed non-empty lines of the verbatim content of e
QuoteLines(d, a, e) ==
  LET lines == CharLines(VerbatimChars(d, a, e))
  IN  NonEmpty([k \in 1..Len(lines) |-> TrimmedLine(lines[k])])

BlockquoteEntries == {k \in 1..Len(log) : log[k].handler = "blockquote"}

\* C12: the operations of a block quote outside a list item carry
\* blockquote: true once per line of its verbatim content that is non-empty
\* after trimming; the characters of each such line, with the inline
\* attributes of their text runs, are followed by exactly one blockquote
\* newline, in source order.
C12_BlockquoteLines ==
  \A k \in BlockquoteEntries :
    LET out   == log[k].out
        lines == QuoteLines(doc, adapter, log[k].element)
    IN  /\ Cardinality({x \in 1..Len(out) : HasAttr(out[x], "blockquote")}) = Len(lines)
        /\ \A x \in 1..Len(out) :
             IF HasAttr(out[x], "blockquote")
             THEN out[x] = [insert |-> <<NL>>, attributes |-> ("blockquote" :> TRUE)]
             ELSE \A j \in 1..Len(out[x].insert) : out[x].insert[j] # NL
        /\ CharsOf(out) =
             Concat([x \in 1..Len(lines) |->
                       Append(lines[x], [char |-> NL, attrs |-> ("blockquote" :> TRUE)])])

\* A block quote of two lines whose second line mixes a plain and a bold run.
C12_Witness ==
  \E k \in BlockquoteEntries :
    LET out == log[k].out
    IN  /\ Cardinality({x \in 1..Len(out) : HasAttr(out[x], "blockquote")}) >= 2
        /\ \E x \in 2..Len(out) :
             /\ HasAttr(out[x], "bold") /\ ~HasAttributes(out[x - 1])
             /\ out[x - 1].insert # <<NL>>

CodeBlockEntries == {k \in 1..Len(log) : log[k].handler = "code-block"}

\* the text a code block is read from: its first code descendant, else itself
CodeSource(d, e) ==
  LET codes == {j \in Elements(d) : j # e /\ Contains(d, e, j) /\ d[j].tag = "code"}
  IN  IF codes = {} THEN e ELSE CHOOSE c \in codes : \A x \in codes : c <= x

\* s without its trailing whitespace
StripTrailing(s) ==
  LET keep == {i \in 1..Len(s) : ~IsWhitespace(s[i])}
  IN  IF keep = {} THEN <<>>
      ELSE SubSeq(s, 1, CHOOSE i \in keep : \A j \in keep : j <= i)

\* C13: a pre whose text (of its code element if any) is empty after
\* stripping trailing whitespace emits nothing; otherwise it emits, per line
\* of the stripped text in order, an attribute-free text operation when the
\* line is non-empty and then exactly one {code-block: true} newline, so
\* interior blank lines are counted and trailing ones are not.
C13_CodeBlockLines ==
  \A k \in CodeBlockEntries :
    LET out  == log[k].out
        text == StripTrailing(TextContent(doc, CodeSource(doc, log[k].element)))
    IN  IF text = <<>> THEN out = <<>>
        ELSE /\ Concat([x \in 1..Len(out) |-> out[x].insert]) = Append(text, NL)
             /\ Cardinality({x \in 1..Len(out) : HasAttr(out[x], "code-block")})
                  = 1 + Cardinality({i \in 1..Len(text) : text[i] = NL})
             /\ \A x \in 1..Len(out) :
                  IF HasAttributes(out[x])
                  THEN out[x] = [insert |-> <<NL>>,
                                 attributes |-> ("code-block" :> TRUE)]
                  ELSE /\ out[x].insert # <<>>
                       /\ \A j \in 1..Len(out[x].insert) : out[x].insert[j] # NL
                       /\ x < Len(out) /\ HasAttributes(out[x + 1])

\* A code block read from its code element, with an interior blank line and
\* stripped trailing whitespace.
C13_Witness ==
  \E k \in CodeBlockEntries :
    LET out == log[k].out
        src == CodeSource(doc, log[k].element)
    IN  /\ src # log[k].element
        /\ StripTrailing(TextContent(doc, src)) # TextContent(doc, src)
        /\ \E x \in 2..(Len(out) - 2) :
             /\ HasAttr(out[x], "code-block") /\ HasAttr(out[x + 1], "code-block")
             /\ ~HasAttributes(out[x - 1]) /\ ~HasAttributes(out[x + 2])

\* the log entries whose text operations are made by the inline formatter
FormatterEntries == {k \in 1..Len(log) : log[k].handler \notin {"code-block", "none"}}

\* the text node a visible character comes from
SourceNode(d, c) == CHOOSE t \in TextNodes(d) : \E j \in 1..Len(d[t].text) : d[t].text[j] = c

\* the attributes element x contributes by its tag or its style
Contributed(d, a, x) ==
  (DOMAIN getTagAttributes(a, d, x, StyleDeclarations(d, x)))
    \cup (DOMAIN extractStyleAttributes(StyleDeclarations(d, x)))

\* the a[href] elements of a path
LinksOn(d, path) ==
  {k \in 1..Len(path) : d[path[k]].tag = "a" /\ HasAttribute(d, path[k], "href")}

\* C14: a text operation made by the inline formatter carries every inline
\* attribute contributed, by tag or style, by an element between the
\* formatted root and its text node: the boolean ones are true, and link is
\* the URL of the innermost enclosing a[href].
C14_AttributesInherited ==
  \A k \in FormatterEntries :
    \A x \in 1..Len(log[k].out) :
      LET op == log[k].out[x] IN
      \A j \in 1..Len(op.insert) :
        ~IsWhitespace(op.insert[j]) =>
          LET path == PathBetween(doc, log[k].element, SourceNode(doc, op.insert[j]))
          IN  /\ \A y \in 1..Len(path) :
                   \A key \in Contributed(doc, adapter, path[y]) :
                     /\ HasAttr(op, key)
                     /\ key # "link" => op.attributes[key] = TRUE
              /\ LinksOn(doc, path) # {} =>
                   LET in == CHOOSE y \in LinksOn(doc, path) :
                               \A z \in LinksOn(doc, path) : z <= y
                   IN  /\ HasAttr(op, "link")
                       /\ op.attributes["link"] =
                            extractUrl(adapter, doc[path[in]].attrs["href"])

\* A text run below a redirecting link and a bold element, carrying both
\* attributes.
C14_Witness ==
  \E k \in FormatterEntries : \E x \in 1..Len(log[k].out) :
    /\ HasAttr(log[k].out[x], "link") /\ HasAttr(log[k].out[x], "bold")
    /\ log[k].out[x].attributes["link"] = "https://example.org"

\* C15: no operation of the output has an attributes object without keys; an
\* operation without formatting has no attributes key.
C15_NoEmptyAttributes ==
  \A k \in 1..Len(ops) : HasAttributes(ops[k]) => DOMAIN ops[k].attributes # {}

\* A finished conversion that emitted an unformatted text run, a formatted
\* one and a plain newline.
C15_Witness ==
  /\ pc = "done"
  /\ \E k \in 1..Len(ops) : ~HasAttributes(ops[k]) /\ ops[k].insert # <<NL>>
  /\ \E k \in 1..Len(ops) : HasAttributes(ops[k]) /\ ops[k].insert # <<NL>>
  /\ \E k \in 1..Len(ops) : ops[k] = NewlineOp

CancelsBold(d, x) ==
  StyleDeclarations(d, x) \cap {"font-weight: normal", "font-weight: 400"} # {}

\* the adapter flags x as a wrapper element
FlaggedAsWrapper(d, a, x) ==
  /\ a = "google-docs"
  /\ \/ (HasAttribute(d, x, "id") /\ d[x].attrs["id"] = "docs-internal-guid")
     \/ CancelsBold(d, x)

\* x is a source of bold: a b or strong that is neither a wrapper nor
\* cancelled, or an element whose style sets a bold font weight
IsBoldSource(d, a, x) ==
  \/ d[x].tag \in {"b", "strong"} /\ ~FlaggedAsWrapper(d, a, x) /\ ~CancelsBold(d, x)
  \/ StyleDeclarations(d, x) \cap {"font-weight: bold", "font-weight: 700",
                                   "font-weight: 800", "font-weight: 900"} # {}

\* C17: a text run is bold exactly when a bold source lies between the
\* formatted root and its text node, where a b or strong is a source iff the
\* adapter does not flag it as a wrapper and its style does not match the
\* bold-cancel rule; text in a b with font-weight: normal and no other bold
\* source has no bold attribute.
C17_BoldCancel ==
  \A k \in FormatterEntries :
    \A x \in 1..Len(log[k].out) :
      LET op == log[k].out[x] IN
      \A j \in 1..Len(op.insert) :
        ~IsWhitespace(op.insert[j]) =>
          LET path == PathBetween(doc, log[k].element, SourceNode(doc, op.insert[j]))
          IN  HasAttr(op, "bold") <=>
                \E y \in 1..Len(path) : IsBoldSource(doc, adapter, path[y])

\* With the adapter that flags no wrappers: a text run without bold inside a
\* b with font-weight: normal.
C17_Witness ==
  /\ adapter = "notion"
  /\ \E k \in FormatterEntries : \E x \in 1..Len(log[k].out) :
       LET plain == log[k].out[x]
       IN  /\ plain.insert # <<NL>> /\ ~HasAttr(plain, "bold")
           /\ \E b \in Elements(doc) :
                /\ doc[b].tag = "b" /\ CancelsBold(doc, b)
                /\ Contains(doc, b, SourceNode(doc, plain.insert[1]))

HeadingEntries == {k \in 1..Len(log) : log[k].handler = "heading"}

\* C18: every text operation produced for a heading element carries
\* bold: true.
C18_HeadingsBold ==
  \A k \in HeadingEntries :
    \A x \in 1..(Len(log[k].out) - 1) : HasAttr(log[k].out[x], "bold")

\* the line convertToPlainText is to render for list item e
ItemLine(d, e) ==
  Indent(Cardinality({j \in Ancestors(d, e) : d[j].tag \in {"ul", "ol"}}))
    \o <<BULLET, SP>> \o Trim(TextContent(d, e)) \o <<NL>>

\* C19: the plain text holds, for every li element of the input, a line of
\* its own: four spaces per ul/ol ancestor, the bullet prefix, the item's
\* trimmed text and a newline; there are as many bullets as li elements.
C19_PlainTextListLines ==
  (hnd.calls # <<>> /\ hnd.calls[Len(hnd.calls)] = "showNotification") =>
    LET items == {e \in Elements(doc) : doc[e].tag = "li"}
    IN  /\ \A e \in items : IsSubstring(ItemLine(doc, e), hnd.plainText)
        /\ Occurrences(hnd.plainText, BULLET) = Cardinality(items)

\* the calls a handler invocation with filter f makes when it runs to the end
CallOrder(f) ==
  <<"waitForClipboard", "readClipboardHtml">>
    \o (IF f = "none" THEN <<>> ELSE <<"htmlFilter">>)
    \o <<"convertToSlackTexty", "convertToPlainText", "writeSlackTexty",
         "showNotification">>

IsPrefix(s, t) == Len(s) <= Len(t) /\ SubSeq(t, 1, Len(s)) = s

\* the keydown is a copy shortcut, the clipboard HTML is non-empty, the
\* filter accepts it and the conversion has at least one operation
ShouldWrite ==
  /\ (hnd.event.metaKey \/ hnd.event.ctrlKey) /\ hnd.event.key = "c"
  /\ hnd.html = "html" /\ doc # <<>>
  /\ hnd.filter = "containsLists" => \E i \in 1..Len(doc) : doc[i].tag = "li"
  /\ pc = "done" /\ Len(ops) >= 1

\* C20: the handler calls wait, read, filter, convert, write and notify in
\* this order, each at most once; it calls writeSlackTexty and
\* showNotification only for a copy shortcut with non-empty, accepted HTML
\* that converts to at least one operation, and then calls each exactly once;
\* in every other case it returns without calling either.
C20_HandlerWritesOnlyConverted ==
  /\ IsPrefix(hnd.calls, CallOrder(hnd.filter))
  /\ (\E i \in 1..Len(hnd.calls) : hnd.calls[i] \in {"writeSlackTexty", "showNotification"})
       => (ShouldWrite /\ hnd.calls = CallOrder(hnd.filter))
  /\ hnd.pc = "returned" =>
       (IF ShouldWrite THEN hnd.calls = CallOrder(hnd.filter)
        ELSE \A i \in 1..Len(hnd.calls) :
               hnd.calls[i] \notin {"writeSlackTexty", "showNotification"})

\* A handler with the list filter that wrote and notified after converting a
\* list: every step of the order was taken.
C20_Witness ==
  /\ hnd.pc = "returned"
  /\ hnd.filter = "containsLists"
  /\ hnd.calls = CallOrder("containsLists")
  /\ Len(ops) >= 2

\* The calls a step of the handler adds to its call history
NewCalls ==
  { hnd'.calls[i] : i \in (Len(hnd.calls) + 1)..Len(hnd'.calls) }

\* The content script has seen the stored settings and they disable it
ObservedDisabled ==
  /\ script.pc = "on"
  /\ script.pending = 0
  /\ ~script.enabled
  /\ ~isProviderEnabled(getSettings(store), adapter)

\* C21: once the provider is disabled in the stored settings and the content
\* script has observed that change, no later step calls writeSlackTexty or
\* showNotification for as long as the provider stays disabled.
C21_NoCopyOnceDisabled ==
  [][ObservedDisabled =>
       NewCalls \cap {"writeSlackTexty", "showNotification"} = {}]_vars

\* C22: after a call of showNotification the notification stays displayed,
\* without the slide-out class, until 2000 ms after the most recent call.
C22_ShownUntilLastCallExpires ==
  (/\ note.pc = "on"
   /\ note.notificationElement
   /\ note.calls > 0
   /\ note.now < note.lastCall + NOTIFICATION_CONFIG.duration)
  => (note.display = "block" /\ ~note.slideOut)

\* The flag a toggle target names, as the stored settings give it: an entry
\* that is missing counts as enabled
FlagOf(stored, target) ==
  IF target = "global" THEN stored.globalEnabled
  ELSE IF target \in DOMAIN getSettings(stored).providers
  THEN getSettings(stored).providers[target].enabled
  ELSE TRUE

\* The toggle call ran alone and has returned
RanAlone(c) == toggles[c].pc = "done" /\ ~toggles[c].overlapped

C29_BothTogglesStored ==
  \A c \in DOMAIN toggles, k \in DOMAIN toggles :
    (/\ toggles[c].pc = "done" /\ toggles[k].pc = "done"
     /\ toggles[c].target # toggles[k].target)
    => FlagOf(store, toggles[c].target) = toggles[c].result

\* C24: once cleanup() has returned, no keydown listener that was registered
\* on the document through setupEventListeners is left, and a further
\* cleanup() changes nothing.
C24_CleanupRemovesEveryListener ==
  page.cleaned =>
    /\ \A handler \in page.registered :
         Listener(DOCUMENT, handler) \notin page.listeners
    /\ cleanup(adapter, page) = page

\* C27: the Google Docs adapter never has more than one keydown listener on
\* an iframe document, and once cleanup() has returned no retry timer is
\* pending and no iframe document carries a listener of the adapter.
C27_IframeListeners ==
  adapter = "google-docs" =>
    /\ \A f \in 1..MaxIframes :
         Cardinality({ l \in page.listeners : l.target = f }) <= 1
    /\ page.cleaned =>
         /\ page.timers = {}
         /\ \A l \in page.listeners : l.target = DOCUMENT

\* After two calls of setupEventListeners both iframes are accessible and
\* have had a listener attached, and cleanup() has returned.
C27_Witness ==
  /\ adapter = "google-docs"
  /\ page.cleaned
  /\ page.setups = MaxSetups
  /\ Cardinality({ l.target : l \in page.attached }) = MaxIframes
  /\ \A f \in 1..MaxIframes : page.iframes[f] = "accessible"

\* The document in which element e is a p instead of what it is
AsParagraph(d, e) == [d EXCEPT ![e].tag = "p"]

\* The log entries of the p and heading elements that are in no list item
ParagraphLikeEntries ==
  { k \in 1..Len(log) :
      /\ doc[log[k].element].tag = "p" \/ IsHeadingTag(doc[log[k].element].tag)
      /\ ~Closest(doc, log[k].element, "li") }

NumberingStyles == {"decimal", "lower-alpha", "upper-roman", "numbered"}

\* The item's parent is an ol, or its inline list-style-type numbers it
ShouldBeOrdered(d, e) ==
  \/ d[e].parent # BODY /\ d[d[e].parent].tag = "ol"
  \/ HasAttribute(d, e, "list-style-type")
       /\ d[e].attrs["list-style-type"] \in NumberingStyles

\* C26: the newline of a list item carries list = "ordered" exactly when the
\* item's parent is an ol or its inline list-style-type contains decimal,
\* number, alpha or roman, and list = "bullet" otherwise.
C26_OrderedOrBullet ==
  \A k \in ListItemEntries :
    LET e    == log[k].element
        last == log[k].out[Len(log[k].out)]
    IN  /\ last.insert = <<NL>>
        /\ HasAttr(last, "list")
        /\ last.attributes["list"] =
             IF ShouldBeOrdered(doc, e) THEN "ordered" ELSE "bullet"

\* A finished conversion that holds an item of a ul whose list style is
\* lower-alpha: its text is followed by a newline that carries "ordered".
C26_Witness ==
  /\ pc = "done"
  /\ \E k \in ListItemEntries :
       LET e    == log[k].element
           last == log[k].out[Len(log[k].out)]
       IN  /\ doc[e].parent # BODY /\ doc[doc[e].parent].tag = "ul"
           /\ HasAttribute(doc, e, "list-style-type")
           /\ doc[e].attrs["list-style-type"] = "lower-alpha"
           /\ last.attributes["list"] = "ordered"
           /\ Len(log[k].out) = 2

Reverse(s) == [k \in 1..Len(s) |-> s[Len(s) + 1 - k]]

Rotate(s, n) == SubSeq(s, n + 1, Len(s)) \o SubSeq(s, 1, n)

\* Orders of the six handlers in which every pair of handlers appears both
\* ways round: the rotations of BLOCK_HANDLERS and their reversals
HandlerOrders ==
  UNION { {Rotate(BLOCK_HANDLERS, n), Reverse(Rotate(BLOCK_HANDLERS, n))}
            : n \in 0..(Len(BLOCK_HANDLERS) - 1) }

RECURSIVE DispatchLoopWith(_, _, _, _, _)
\* The dispatch loop run with the handlers in the order hs
DispatchLoopWith(hs, d, a, c, out) ==
  IF ~HasNextNode(d, c) THEN out
  ELSE LET element == nextNode(d, c)
           h       == FirstMatch(hs, d, element)
       IN  IF h = "none" THEN DispatchLoopWith(hs, d, a, element, out)
           ELSE DispatchLoopWith(hs, d, a,
                                 IF SkipsDescendants(h)
                                 THEN skipDescendants(d, element, element)
                                 ELSE element,
                                 PushAll(out, handle(h, d, a, element)))

Matching(d, e) ==
  { k \in 1..Len(BLOCK_HANDLERS) : canHandle(BLOCK_HANDLERS[k], d, e) }

\* The p elements below a blockquote that is handled as a block quote
QuotedParagraphs(d) ==
  { e \in Elements(d) :
      d[e].tag = "p" /\ Closest(d, e, "blockquote") /\ ~Closest(d, e, "li") }

C30_NewestSettingsAppliedLast ==
  icon.pc = "on" => icon.appliedVersion = icon.newestApplied
====
